---- MODULE Spec2Model ----
(***************************************************************************)
(* Model of the mail-forwarder orchestrator (src/src/main.rs): main(),     *)
(* run_receiver_task() and process_emails(), with the MailReceiver,        *)
(* SmtpSender and Notification calls as external calls whose results are   *)
(* chosen nondeterministically.                                            *)
(*                                                                         *)
(* Every await of process_emails is one action: the call and the           *)
(* statements that follow it up to the next await.                         *)
(*                                                                         *)
(* History variables (not program state) are marked "history".             *)
(***************************************************************************)
EXTENDS Integers, Sequences, FiniteSets, TLC

\* ---------------------------------------------------------------- bounds
\* Largest number of messages one fetch returns.
MaxBatch == 2
\* Largest number of entries of the notification list.
MaxNotifiers == 2
\* Number of distinct message ids a mailbox hands out.
NumIds == 2
\* Largest configured check_interval_seconds.
MaxInterval == 310
\* Cap on the failed constructions of the mailer.
MaxCreateErr == 2
\* Largest number of entries of a POP3 server's message list.
MaxList == 2

Ids == 1..NumIds
Contents == {"raw"}

\* Option<bool> values of ReceiverConfig.delete_after_forward.
OptBool == {"None", "Some(true)", "Some(false)"}

\* Option<u64> values of ReceiverConfig.check_interval_seconds: <<>> is None,
\* <<v>> is Some(v).
OptU64 == {<<>>} \cup {<<v>> : v \in 0..MaxInterval}

\* config.rs 64
DEFAULT_CHECK_INTERVAL_SECONDS == 300
\* main.rs 217: the argument of `.max(10)`
MIN_INTERVAL_SECONDS == 10

\* ------------------------------------------------------------- variables
VARIABLES
    receivers,              \* config.receivers: Seq of ReceiverConfig
    notifications,          \* the shared notification list (its length)
    listener,               \* environment: "Ok" when signal::ctrl_c() can install
                            \*   its listener (it then returns on the operator's
                            \*   interrupt), "Err" when it cannot (it returns Err)
    mailbox,                \* environment: each account's mailbox, the ids its
                            \*   messages have and the most a fetch returns
    main_pc,                \* position of main()
    handles,                \* main: number of tasks spawned so far
    joined,                 \* main: number of handles awaited so far
    pc,                     \* position of each run_receiver_task
    interval_seconds,       \* each task's poll interval, 0 before it is computed
    ticker,                 \* each task's interval: a tick is ready
    shutdown_rx,            \* each task's broadcast receiver: queued signals
    seen_ids,               \* each task's HashSet<String>
    emails,                 \* the Vec<Email> process_emails iterates
    idx,                    \* position of the `for email in emails` loop
    to_delete,              \* process_emails: Vec of ids
    successfully_processed, \* process_emails: Vec<Email>
    notify_emails,          \* process_emails: Vec<Email>
    nidx,                   \* position of the notification loops <<email, notifier>>
    calls,                  \* history: external calls of the current cycle, in order
    batch,                  \* history: the Vec<Email> the current cycle's fetch returned
    seen0,                  \* history: seen_ids when the task was last at the select!
    fetch_failed,           \* history: the task is at the select! after a fetch error
    forwarded,              \* history: ids ever delivered successfully
    notified,               \* history, kept by SpecRecorded: <<id, n>> for every
                            \*   notifier n ever invoked for a message with that id
    undeleted,              \* history: ids named in a batched delete that failed
    failed,                 \* history: ids whose latest delivery attempt failed
    notify_err,             \* history: "last" when the cycle's last notify call failed,
                            \*   "earlier" when one before the last failed, else "none"
    sig_pc,                 \* history: where in its current or last cycle each task
                            \*   was when the signal was sent, "none" if not in that cycle
    username,               \* SenderConfig.username of the shared SmtpSender
    mailer,                 \* SmtpSender.mailer, the OnceCell: 0 when empty, else
                            \*   the number of the instance it holds
    permit,                 \* the OnceCell's semaphore: the caller that holds its
                            \*   permit, 0 when it is free
    created,                \* history: number of Ok results of factory.create
    failures,               \* history: number of Err results of factory.create
    file_lock,              \* FileNotification.lock: the caller that holds the
                            \*   guard, 0 when it is free
    at,                     \* where each caller of the shared objects is
    arg,                    \* the arguments of each caller's send_email, and the
                            \*   mailer instance it obtained (0: none yet)
    relay,                  \* what each caller's latest send_email handed to
                            \*   mailer.send: <<>> or one record
    ret,                    \* the result of each caller's latest send_email
    server,                 \* environment: how the POP3 server answers a session
    pop3_ret                \* the latest call on the Pop3Receiver: its arguments,
                            \*   its result and the commands its session issued

vars == <<receivers, notifications, listener, mailbox, main_pc, handles, joined, pc,
          interval_seconds, ticker, shutdown_rx, seen_ids, emails, idx,
          to_delete, successfully_processed, notify_emails, nidx, calls, batch,
          seen0, fetch_failed, forwarded, notified, undeleted, failed, notify_err, sig_pc,
          username, mailer, permit, created, failures, file_lock, at, arg,
          relay, ret, server, pop3_ret>>

\* The inside of the shared SmtpSender and FileNotification.
sharedVars == <<username, mailer, permit, created, failures, file_lock, at,
                arg, relay, ret>>
\* The POP3 server and the latest call on the Pop3Receiver.
pop3Vars == <<server, pop3_ret>>
\* The configuration, the environment and the shared objects.
cfgVars == <<receivers, notifications, listener, mailbox, sharedVars, pop3Vars>>
\* The locals of main().
mainVars == <<main_pc, handles, joined>>
\* The locals of process_emails().
stepVars == <<emails, idx, to_delete, successfully_processed, notify_emails, nidx>>
\* The history of the current cycle.
cycleHist == <<calls, batch, seen0, fetch_failed, notify_err>>

Tasks == 1..Len(receivers)

\* ----------------------------------------------------------- pure helpers
\* Option::unwrap_or(false) on delete_after_forward.
DeleteAfterForward(a) == receivers[a].delete_after_forward = "Some(true)"

\* An Email as fetched: id and content; pos is the element's index in the
\* fetched Vec (the identity of the occurrence, for the history only).
MkEmail(id, content, pos) == [id |-> id, content |-> content, pos |-> pos]

\* All Vec<Email> a fetch can return, up to MaxBatch elements.
Batches ==
    UNION { { [k \in 1..n |-> MkEmail(f[k], c[k], k)] :
                f \in [1..n -> Ids], c \in [1..n -> Contents] } : n \in 0..MaxBatch }

\* Option::unwrap_or
UnwrapOr(opt, default) == IF opt = <<>> THEN default ELSE opt[1]

\* Ord::max
Max(x, y) == IF x >= y THEN x ELSE y

\* Variant of IntervalSeconds: the floor is applied as a ceiling.
IntervalSecondsMin(opt) ==
    LET v == UnwrapOr(opt, DEFAULT_CHECK_INTERVAL_SECONDS)
    IN  IF v <= MIN_INTERVAL_SECONDS THEN v ELSE MIN_INTERVAL_SECONDS

\* main.rs 214-217: check_interval_seconds.unwrap_or(DEFAULT..).max(10)
IntervalSeconds(opt) ==
    Max(UnwrapOr(opt, DEFAULT_CHECK_INTERVAL_SECONDS), MIN_INTERVAL_SECONDS)

\* Variant of RemoveAll: only the first id of the list is removed.
RemoveFirst(set, ids) ==
    IF ids = <<>> THEN set
    ELSE set \ {Head(ids)}

RECURSIVE RemoveAll(_, _)
\* `for id in &to_delete { seen_ids.remove(id) }`
RemoveAll(set, ids) ==
    IF ids = <<>> THEN set
    ELSE RemoveAll(set \ {Head(ids)}, Tail(ids))

\* History records of the external calls.
SendCall(e, ok) == [op |-> "send", id |-> e.id, pos |-> e.pos, ok |-> ok]
DeleteCall(ids, ok) == [op |-> "delete", ids |-> ids, ok |-> ok]
NotifyCall(e, n) == [op |-> "notify", id |-> e.id, pos |-> e.pos, n |-> n]

Log(a, c) == calls' = [calls EXCEPT ![a] = Append(@, c)]

\* --------------------------------------------------------------- initial
ReceiverConfigs ==
    [delete_after_forward : OptBool, check_interval_seconds : OptU64]

InitTasks(n) ==
    /\ pc = [a \in 1..n |-> "unspawned"]
    /\ interval_seconds = [a \in 1..n |-> 0]
    /\ ticker = [a \in 1..n |-> FALSE]
    /\ shutdown_rx = [a \in 1..n |-> 0]
    /\ seen_ids = [a \in 1..n |-> {}]
    /\ emails = [a \in 1..n |-> <<>>]
    /\ idx = [a \in 1..n |-> 0]
    /\ to_delete = [a \in 1..n |-> <<>>]
    /\ successfully_processed = [a \in 1..n |-> <<>>]
    /\ notify_emails = [a \in 1..n |-> <<>>]
    /\ nidx = [a \in 1..n |-> <<0, 0>>]
    /\ calls = [a \in 1..n |-> <<>>]
    /\ batch = [a \in 1..n |-> <<>>]
    /\ seen0 = [a \in 1..n |-> {}]
    /\ fetch_failed = [a \in 1..n |-> FALSE]
    /\ forwarded = [a \in 1..n |-> {}]
    /\ notified = [a \in 1..n |-> {}]
    /\ undeleted = [a \in 1..n |-> {}]
    /\ failed = [a \in 1..n |-> {}]
    /\ notify_err = [a \in 1..n |-> "none"]
    /\ sig_pc = [a \in 1..n |-> "none"]

\* The accounts of the two-account configuration.
MultiTasks == {1, 2}

\* The unit value ().
Unit == <<>>
\* No call on the Pop3Receiver has been made.  A Result is <<>> for Err and
\* <<v>> for Ok(v).
NoCall == [op |-> "none", id |-> "", result |-> <<>>, cmds |-> <<>>,
           processed |-> <<>>]

\* pop3_receiver.rs 88-100: a Pop3Receiver is built without a session; here
\* its server has an empty message list and no call has been made.
InitPop3 ==
    /\ server = [create |-> "Ok", list |-> << <<>> >>, delete |-> "Ok"]
    /\ pop3_ret = NoCall

\* smtp_sender.rs 86-92, notifications.rs 90-95: the shared SmtpSender is
\* built with an empty OnceCell, the FileNotification with a free lock; no
\* call on them is under way.
InitShared ==
    /\ mailer = 0
    /\ permit = 0
    /\ created = 0
    /\ failures = 0
    /\ file_lock = 0
    /\ at = [c \in MultiTasks |-> "idle"]
    /\ arg = [c \in MultiTasks |-> <<>>]
    /\ relay = [c \in MultiTasks |-> <<>>]
    /\ ret = [c \in MultiTasks |-> "none"]

\* One configured account whose mailbox can answer with any batch.  The
\* length of the poll interval has no effect on the untimed actions, so the
\* account takes the default one; the arm of the match on ctrl_c() makes no
\* difference to what main does next, so the listener is one that installs.
Init ==
    /\ receivers \in [1..1 -> {r \in ReceiverConfigs :
                                  r.check_interval_seconds = <<>>}]
    /\ notifications \in 0..MaxNotifiers
    /\ listener = "Ok"
    /\ username = "me@example.org"
    /\ InitShared
    /\ InitPop3
    /\ mailbox = [a \in 1..1 |-> [ids |-> Ids, max |-> MaxBatch]]
    /\ main_pc = "spawn"
    /\ handles = 0
    /\ joined = 0
    /\ InitTasks(1)

\* The ReceiverConfig with a delete_after_forward and the default interval.
Account(d) == [delete_after_forward |-> d, check_interval_seconds |-> <<>>]

\* Two configured accounts and one notifier: the first account deletes after
\* forwarding and its mailbox holds at most one message (id 1), the mailbox
\* of the second stays empty.  The orchestration of several tasks with
\* short cycles.
InitMulti ==
    /\ receivers = <<Account("Some(true)"), Account("None")>>
    /\ notifications = 1
    /\ listener \in {"Ok", "Err"}
    /\ username = "me@example.org"
    /\ InitShared
    /\ InitPop3
    /\ mailbox = <<[ids |-> {1}, max |-> 1], [ids |-> {1}, max |-> 0]>>
    /\ main_pc = "spawn"
    /\ handles = 0
    /\ joined = 0
    /\ InitTasks(2)

\* ------------------------------------------------------------------ main
\* main.rs 299-317: subscribe, tokio::spawn, handles.push, for the next account.
Spawn ==
    /\ main_pc = "spawn"
    /\ handles < Len(receivers)
    /\ handles' = handles + 1
    /\ pc' = [pc EXCEPT ![handles + 1] = "init"]
    /\ UNCHANGED <<cfgVars, main_pc, joined, ticker, interval_seconds,
                   shutdown_rx, seen_ids, stepVars, cycleHist,
                   forwarded, notified, undeleted,
                   failed, sig_pc>>

\* main.rs 319: all tasks spawned, main awaits signal::ctrl_c().
SpawnDone ==
    /\ main_pc = "spawn"
    /\ handles = Len(receivers)
    /\ main_pc' = "ctrl_c"
    /\ UNCHANGED <<cfgVars, handles, joined, pc, ticker, interval_seconds,
                   shutdown_rx, seen_ids, stepVars, cycleHist,
                   forwarded, notified, undeleted,
                   failed, sig_pc>>

\* The positions of a cycle: Fetching (fetch_emails) and Processing
\* (process_emails, up to its return).
Busy == {"fetching", "forward", "notify", "returned"}

\* The position p of a task if it is inside a cycle, else "none".
Phase(p) == IF p \in Busy THEN p ELSE "none"

\* Variant of CtrlC: main goes on to the drain without sending the signal.
CtrlCNoSend ==
    /\ main_pc = "ctrl_c"
    /\ main_pc' = "join"
    /\ sig_pc' = [a \in Tasks |-> Phase(pc[a])]
    /\ UNCHANGED <<cfgVars, handles, joined, pc, ticker, interval_seconds,
                   shutdown_rx, seen_ids, stepVars, cycleHist,
                   forwarded, notified, undeleted, failed>>

\* main.rs 319-324: ctrl_c() returns (Ok: the operator's interrupt; Err: the
\* listener could not be installed); in both arms main goes on to
\* shutdown_tx.send(()), which queues the value for every subscribed receiver.
\* Variant of CtrlC: only the tasks that have begun to run are subscribed
\* when the signal is sent.
CtrlCOnlyStarted ==
    /\ main_pc = "ctrl_c"
    /\ main_pc' = "join"
    /\ shutdown_rx' = [a \in Tasks |->
                          IF pc[a] = "init" THEN shutdown_rx[a]
                          ELSE shutdown_rx[a] + 1]
    /\ sig_pc' = [a \in Tasks |-> Phase(pc[a])]
    /\ UNCHANGED <<cfgVars, handles, joined, pc, ticker, interval_seconds,
                   seen_ids, stepVars, cycleHist, forwarded, notified, undeleted, failed>>

CtrlC ==
    /\ main_pc = "ctrl_c"
    /\ main_pc' = "join"
    /\ shutdown_rx' = [a \in Tasks |-> shutdown_rx[a] + 1]
    /\ sig_pc' = [a \in Tasks |-> Phase(pc[a])]
    /\ UNCHANGED <<cfgVars, handles, joined, pc, ticker, interval_seconds,
                   seen_ids, stepVars, cycleHist, forwarded, notified, undeleted, failed>>

\* Variant of Join: the await returns only for a task that returned.
JoinReturnedOnly ==
    /\ main_pc = "join"
    /\ joined < handles
    /\ pc[joined + 1] = "stopped"
    /\ joined' = joined + 1
    /\ UNCHANGED <<cfgVars, main_pc, handles, pc, ticker, interval_seconds,
                   shutdown_rx, seen_ids, stepVars, cycleHist,
                   forwarded, notified, undeleted, failed,
                   sig_pc>>

\* main.rs 327-329: `handle.await` for the next handle returns once that task
\* has finished, by returning or by a panic (the JoinError is dropped by
\* `let _ =`).
Join ==
    /\ main_pc = "join"
    /\ joined < handles
    /\ pc[joined + 1] \in {"stopped", "panicked"}
    /\ joined' = joined + 1
    /\ UNCHANGED <<cfgVars, main_pc, handles, pc, ticker, interval_seconds,
                   shutdown_rx, seen_ids, stepVars, cycleHist,
                   forwarded, notified, undeleted,
                   failed, sig_pc>>

\* Variant of Exit: main returns once the first handle has been awaited.
ExitAfterFirst ==
    /\ main_pc = "join"
    /\ joined >= 1
    /\ main_pc' = "done"
    /\ UNCHANGED <<cfgVars, handles, joined, pc, ticker, interval_seconds,
                   shutdown_rx, seen_ids, stepVars, cycleHist,
                   forwarded, notified, undeleted, failed,
                   sig_pc>>

\* main.rs 331-332: every handle awaited, main returns.
Exit ==
    /\ main_pc = "join"
    /\ joined = handles
    /\ main_pc' = "done"
    /\ UNCHANGED <<cfgVars, handles, joined, pc, ticker, interval_seconds,
                   shutdown_rx, seen_ids, stepVars, cycleHist,
                   forwarded, notified, undeleted,
                   failed, sig_pc>>

\* ------------------------------------------------------ run_receiver_task
taskOther == <<cfgVars, mainVars, sig_pc>>

\* The notification loops are at an (email, notifier) pair.
InNotify(a) ==
    /\ pc[a] = "notify"
    /\ nidx[a][1] <= Len(notify_emails[a])
    /\ nidx[a][2] <= notifications

\* main.rs 212-239: set-up of the task; the interval is created (its first
\* tick completes at once) and that first tick is awaited before the loop.
TaskStart(a) ==
    /\ pc[a] = "init"
    /\ pc' = [pc EXCEPT ![a] = "waiting"]
    /\ interval_seconds' = [interval_seconds EXCEPT ![a] =
           IntervalSeconds(receivers[a].check_interval_seconds)]
    /\ ticker' = [ticker EXCEPT ![a] = FALSE]
    /\ UNCHANGED <<taskOther, shutdown_rx, seen_ids, stepVars, cycleHist,
                   forwarded, notified, undeleted, failed>>

\* The interval's period elapses: the next ticker.tick() is ready.  Time
\* passes whatever the task is doing.
TimerElapse(a) ==
    /\ pc[a] \notin {"unspawned", "init", "stopped"}
    /\ ~ticker[a]
    /\ ticker' = [ticker EXCEPT ![a] = TRUE]
    /\ UNCHANGED <<taskOther, pc, interval_seconds, shutdown_rx, seen_ids,
                   stepVars, cycleHist, forwarded, notified, undeleted, failed>>

\* Variant of SelectShutdown: the signal is also taken inside the forward loop.
SelectShutdownAnywhere(a) ==
    /\ pc[a] \in {"waiting", "forward"}
    /\ shutdown_rx[a] > 0
    /\ shutdown_rx' = [shutdown_rx EXCEPT ![a] = @ - 1]
    /\ pc' = [pc EXCEPT ![a] = "stopped"]
    /\ UNCHANGED <<taskOther, ticker, interval_seconds, seen_ids, stepVars,
                   cycleHist, forwarded, notified, undeleted, failed>>

\* main.rs 242-246: the select! completes its shutdown_rx.recv() branch.
SelectShutdown(a) ==
    /\ pc[a] = "waiting"
    /\ shutdown_rx[a] > 0
    /\ shutdown_rx' = [shutdown_rx EXCEPT ![a] = @ - 1]
    /\ pc' = [pc EXCEPT ![a] = "stopped"]
    /\ UNCHANGED <<taskOther, ticker, interval_seconds, seen_ids, stepVars,
                   cycleHist, forwarded, notified, undeleted, failed>>

\* Variant of SelectTick: a ready tick starts a fetch also while the
\* notification loops of the previous cycle are running.
SelectTickOverlaps(a) ==
    /\ pc[a] \in {"waiting", "notify"}
    /\ ticker[a]
    /\ ticker' = [ticker EXCEPT ![a] = FALSE]
    /\ pc' = [pc EXCEPT ![a] = "fetching"]
    /\ sig_pc' = [sig_pc EXCEPT ![a] = "none"]
    /\ fetch_failed' = [fetch_failed EXCEPT ![a] = FALSE]
    /\ UNCHANGED <<cfgVars, mainVars, interval_seconds, shutdown_rx, seen_ids,
                   stepVars, calls, batch, seen0, notify_err,
                   forwarded, notified, undeleted, failed>>

\* main.rs 242, 247: the select! completes its ticker.tick() branch; when
\* both branches are ready select! picks either.  A new cycle starts.
\* Variant of SelectTick: a tick that was ready when the task stopped starts
\* another cycle.
SelectTickAfterStop(a) ==
    /\ pc[a] \in {"waiting", "stopped"}
    /\ ticker[a]
    /\ ticker' = [ticker EXCEPT ![a] = FALSE]
    /\ pc' = [pc EXCEPT ![a] = "fetching"]
    /\ sig_pc' = [sig_pc EXCEPT ![a] = "none"]
    /\ fetch_failed' = [fetch_failed EXCEPT ![a] = FALSE]
    /\ UNCHANGED <<cfgVars, mainVars, interval_seconds, shutdown_rx, seen_ids,
                   stepVars, calls, batch, seen0, notify_err,
                   forwarded, notified, undeleted,
                   failed>>

SelectTick(a) ==
    /\ pc[a] = "waiting"
    /\ ticker[a]
    /\ ticker' = [ticker EXCEPT ![a] = FALSE]
    /\ pc' = [pc EXCEPT ![a] = "fetching"]
    /\ sig_pc' = [sig_pc EXCEPT ![a] = "none"]
    /\ fetch_failed' = [fetch_failed EXCEPT ![a] = FALSE]
    /\ UNCHANGED <<cfgVars, mainVars, interval_seconds, shutdown_rx, seen_ids,
                   stepVars, calls, batch, seen0, notify_err,
                   forwarded, notified, undeleted,
                   failed>>

\* The account's mailbox can answer a fetch with b.
Fetchable(a, b) ==
    /\ Len(b) <= mailbox[a].max
    /\ \A k \in DOMAIN b : b[k].id \in mailbox[a].ids

\* main.rs 250-262: fetch_emails returns Ok(b); process_emails starts with
\* empty to_delete and successfully_processed (126-127).
FetchOk(a, b) ==
    /\ pc[a] = "fetching"
    /\ Fetchable(a, b)
    /\ pc' = [pc EXCEPT ![a] = "forward"]
    /\ emails' = [emails EXCEPT ![a] = b]
    /\ idx' = [idx EXCEPT ![a] = 1]
    /\ to_delete' = [to_delete EXCEPT ![a] = <<>>]
    /\ successfully_processed' = [successfully_processed EXCEPT ![a] = <<>>]
    /\ batch' = [batch EXCEPT ![a] = b]
    /\ UNCHANGED <<taskOther, ticker, interval_seconds, shutdown_rx, seen_ids,
                   notify_emails, nidx, calls, seen0, fetch_failed, notify_err,
                   forwarded, notified, undeleted, failed>>

\* Variant of FetchErr: the task ends on a fetch error.
FetchErrStops(a) ==
    /\ pc[a] = "fetching"
    /\ pc' = [pc EXCEPT ![a] = "stopped"]
    /\ fetch_failed' = [fetch_failed EXCEPT ![a] = TRUE]
    /\ UNCHANGED <<taskOther, ticker, interval_seconds, shutdown_rx, seen_ids,
                   stepVars, calls, batch, seen0, notify_err,
                   forwarded, notified, undeleted, failed>>

\* main.rs 263-265: fetch_emails returns Err; logged, back to the select!.
FetchErr(a) ==
    /\ pc[a] = "fetching"
    /\ pc' = [pc EXCEPT ![a] = "waiting"]
    /\ fetch_failed' = [fetch_failed EXCEPT ![a] = TRUE]
    /\ UNCHANGED <<taskOther, ticker, interval_seconds, shutdown_rx, seen_ids,
                   stepVars, calls, batch, seen0, notify_err,
                   forwarded, notified, undeleted,
                   failed>>

\* --------------------------------------------------------- process_emails
\* The email the forward loop is at.
CurEmail(a) == emails[a][idx[a]]

InForward(a) == pc[a] = "forward" /\ idx[a] <= Len(emails[a])

\* Variant of ForwardSkip: a seen id is delivered again instead of skipped.
ForwardSkipResends(a) ==
    /\ InForward(a)
    /\ CurEmail(a).id \in seen_ids[a]
    /\ idx' = [idx EXCEPT ![a] = @ + 1]
    /\ Log(a, SendCall(CurEmail(a), TRUE))
    /\ UNCHANGED <<taskOther, pc, ticker, interval_seconds, shutdown_rx,
                   seen_ids, emails, to_delete, successfully_processed,
                   notify_emails, nidx, batch, seen0, fetch_failed, notify_err,
                   forwarded, notified, undeleted, failed>>

\* Variant of ForwardSkip: an id whose last delivery failed is skipped too.
ForwardSkipFailed(a) ==
    /\ InForward(a)
    /\ CurEmail(a).id \in seen_ids[a] \cup failed[a]
    /\ idx' = [idx EXCEPT ![a] = @ + 1]
    /\ UNCHANGED <<taskOther, pc, ticker, interval_seconds, shutdown_rx,
                   seen_ids, emails, to_delete, successfully_processed,
                   notify_emails, nidx, cycleHist, forwarded, notified, undeleted, failed>>

\* main.rs 132-134: the id is in seen_ids, `continue`.
\* Variant of ForwardSkip: the skipped e-mail is queued for notification.
ForwardSkipNotifies(a) ==
    /\ InForward(a)
    /\ CurEmail(a).id \in seen_ids[a]
    /\ successfully_processed' =
           [successfully_processed EXCEPT ![a] = Append(@, CurEmail(a))]
    /\ idx' = [idx EXCEPT ![a] = @ + 1]
    /\ UNCHANGED <<taskOther, pc, ticker, interval_seconds, shutdown_rx,
                   seen_ids, emails, to_delete, notify_emails, nidx,
                   cycleHist, forwarded, notified, undeleted, failed>>

\* Variant of ForwardSkip: the id of the skipped e-mail is queued for the
\* batched delete.
ForwardSkipQueuesDelete(a) ==
    /\ InForward(a)
    /\ CurEmail(a).id \in seen_ids[a]
    /\ to_delete' = [to_delete EXCEPT ![a] = Append(@, CurEmail(a).id)]
    /\ idx' = [idx EXCEPT ![a] = @ + 1]
    /\ UNCHANGED <<taskOther, pc, ticker, interval_seconds, shutdown_rx,
                   seen_ids, emails, successfully_processed, notify_emails,
                   nidx, cycleHist, forwarded, notified, undeleted, failed>>

ForwardSkip(a) ==
    /\ InForward(a)
    /\ CurEmail(a).id \in seen_ids[a]
    /\ idx' = [idx EXCEPT ![a] = @ + 1]
    /\ UNCHANGED <<taskOther, pc, ticker, interval_seconds, shutdown_rx,
                   seen_ids, emails, to_delete, successfully_processed,
                   notify_emails, nidx, cycleHist, forwarded, notified, undeleted, failed>>

\* Variant of ForwardOk: the id is not inserted into seen_ids.
ForwardOkNoMark(a) ==
    /\ InForward(a)
    /\ CurEmail(a).id \notin seen_ids[a]
    /\ to_delete' = [to_delete EXCEPT ![a] = Append(@, CurEmail(a).id)]
    /\ successfully_processed' =
           [successfully_processed EXCEPT ![a] = Append(@, CurEmail(a))]
    /\ idx' = [idx EXCEPT ![a] = @ + 1]
    /\ Log(a, SendCall(CurEmail(a), TRUE))
    /\ forwarded' = [forwarded EXCEPT ![a] = @ \cup {CurEmail(a).id}]
    /\ UNCHANGED <<notified, undeleted>>
    /\ failed' = [failed EXCEPT ![a] = @ \ {CurEmail(a).id}]
    /\ UNCHANGED <<taskOther, pc, ticker, interval_seconds, shutdown_rx,
                   seen_ids, emails, notify_emails, nidx, batch, seen0,
                   fetch_failed, notify_err>>

\* main.rs 138-150: send_email returns Ok: insert into seen_ids, push the id
\* on to_delete and the email on successfully_processed.
\* Variant of ForwardOk: the id is queued at the front of to_delete.
ForwardOkPrepends(a) ==
    /\ InForward(a)
    /\ CurEmail(a).id \notin seen_ids[a]
    /\ seen_ids' = [seen_ids EXCEPT ![a] = @ \cup {CurEmail(a).id}]
    /\ to_delete' = [to_delete EXCEPT ![a] = <<CurEmail(a).id>> \o @]
    /\ successfully_processed' =
           [successfully_processed EXCEPT ![a] = Append(@, CurEmail(a))]
    /\ idx' = [idx EXCEPT ![a] = @ + 1]
    /\ Log(a, SendCall(CurEmail(a), TRUE))
    /\ forwarded' = [forwarded EXCEPT ![a] = @ \cup {CurEmail(a).id}]
    /\ UNCHANGED <<notified, undeleted>>
    /\ failed' = [failed EXCEPT ![a] = @ \ {CurEmail(a).id}]
    /\ UNCHANGED <<taskOther, pc, ticker, interval_seconds, shutdown_rx, emails,
                   notify_emails, nidx, batch, seen0, fetch_failed, notify_err>>

\* Variant of ForwardOk: the id is looked up in the set as it was when the
\* step began, not in the set the loop has been adding to.
ForwardOkStaleSeen(a) ==
    /\ InForward(a)
    /\ CurEmail(a).id \notin seen0[a]
    /\ seen_ids' = [seen_ids EXCEPT ![a] = @ \cup {CurEmail(a).id}]
    /\ to_delete' = [to_delete EXCEPT ![a] = Append(@, CurEmail(a).id)]
    /\ successfully_processed' =
           [successfully_processed EXCEPT ![a] = Append(@, CurEmail(a))]
    /\ idx' = [idx EXCEPT ![a] = @ + 1]
    /\ Log(a, SendCall(CurEmail(a), TRUE))
    /\ forwarded' = [forwarded EXCEPT ![a] = @ \cup {CurEmail(a).id}]
    /\ UNCHANGED <<notified, undeleted>>
    /\ failed' = [failed EXCEPT ![a] = @ \ {CurEmail(a).id}]
    /\ UNCHANGED <<taskOther, pc, ticker, interval_seconds, shutdown_rx, emails,
                   notify_emails, nidx, batch, seen0, fetch_failed, notify_err>>

ForwardOk(a) ==
    /\ InForward(a)
    /\ CurEmail(a).id \notin seen_ids[a]
    /\ seen_ids' = [seen_ids EXCEPT ![a] = @ \cup {CurEmail(a).id}]
    /\ to_delete' = [to_delete EXCEPT ![a] = Append(@, CurEmail(a).id)]
    /\ successfully_processed' =
           [successfully_processed EXCEPT ![a] = Append(@, CurEmail(a))]
    /\ idx' = [idx EXCEPT ![a] = @ + 1]
    /\ Log(a, SendCall(CurEmail(a), TRUE))
    /\ forwarded' = [forwarded EXCEPT ![a] = @ \cup {CurEmail(a).id}]
    /\ UNCHANGED <<notified, undeleted>>
    /\ failed' = [failed EXCEPT ![a] = @ \ {CurEmail(a).id}]
    /\ UNCHANGED <<taskOther, pc, ticker, interval_seconds, shutdown_rx, emails,
                   notify_emails, nidx, batch, seen0, fetch_failed, notify_err>>

\* Variant of ForwardErr: the failed email is queued for notification.
ForwardErrNotifies(a) ==
    /\ InForward(a)
    /\ CurEmail(a).id \notin seen_ids[a]
    /\ successfully_processed' =
           [successfully_processed EXCEPT ![a] = Append(@, CurEmail(a))]
    /\ idx' = [idx EXCEPT ![a] = @ + 1]
    /\ Log(a, SendCall(CurEmail(a), FALSE))
    /\ failed' = [failed EXCEPT ![a] = @ \cup {CurEmail(a).id}]
    /\ UNCHANGED <<taskOther, pc, ticker, interval_seconds, shutdown_rx,
                   seen_ids, emails, to_delete, notify_emails, nidx, batch,
                   seen0, fetch_failed, notify_err, forwarded, notified, undeleted>>

\* Variant of ForwardErr: the id is marked seen although the delivery failed.
ForwardErrMarksSeen(a) ==
    /\ InForward(a)
    /\ CurEmail(a).id \notin seen_ids[a]
    /\ seen_ids' = [seen_ids EXCEPT ![a] = @ \cup {CurEmail(a).id}]
    /\ idx' = [idx EXCEPT ![a] = @ + 1]
    /\ Log(a, SendCall(CurEmail(a), FALSE))
    /\ failed' = [failed EXCEPT ![a] = @ \cup {CurEmail(a).id}]
    /\ UNCHANGED <<taskOther, pc, ticker, interval_seconds, shutdown_rx, emails,
                   to_delete, successfully_processed, notify_emails, nidx,
                   batch, seen0, fetch_failed, notify_err, forwarded, notified, undeleted>>

\* Variant of ForwardErr: the failed id is queued for deletion.
ForwardErrQueuesDelete(a) ==
    /\ InForward(a)
    /\ CurEmail(a).id \notin seen_ids[a]
    /\ to_delete' = [to_delete EXCEPT ![a] = Append(@, CurEmail(a).id)]
    /\ idx' = [idx EXCEPT ![a] = @ + 1]
    /\ Log(a, SendCall(CurEmail(a), FALSE))
    /\ failed' = [failed EXCEPT ![a] = @ \cup {CurEmail(a).id}]
    /\ UNCHANGED <<taskOther, pc, ticker, interval_seconds, shutdown_rx,
                   seen_ids, emails, successfully_processed, notify_emails,
                   nidx, batch, seen0, fetch_failed, notify_err,
                   forwarded, notified, undeleted>>

\* main.rs 138, 151-156: send_email returns Err: logged, nothing recorded.
ForwardErr(a) ==
    /\ InForward(a)
    /\ CurEmail(a).id \notin seen_ids[a]
    /\ idx' = [idx EXCEPT ![a] = @ + 1]
    /\ Log(a, SendCall(CurEmail(a), FALSE))
    /\ failed' = [failed EXCEPT ![a] = @ \cup {CurEmail(a).id}]
    /\ UNCHANGED <<taskOther, pc, ticker, interval_seconds, shutdown_rx,
                   seen_ids, emails, to_delete, successfully_processed,
                   notify_emails, nidx, batch, seen0, fetch_failed, notify_err,
                   forwarded, notified, undeleted>>

\* The forward loop is over.
ForwardOver(a) == pc[a] = "forward" /\ idx[a] > Len(emails[a])

\* main.rs 161: the condition under which delete_emails is called.
WantsDelete(a) == DeleteAfterForward(a) /\ to_delete[a] # <<>>

\* Entering the notification loops with list l.
StartNotify(a, l) ==
    /\ notify_emails' = [notify_emails EXCEPT ![a] = l]
    /\ nidx' = [nidx EXCEPT ![a] = <<1, 1>>]
    /\ pc' = [pc EXCEPT ![a] = "notify"]

\* main.rs 161-175: delete_emails(&to_delete) returns Ok: every id of
\* to_delete leaves seen_ids; notify_emails = successfully_processed.
\* Variant of DeleteOk: the delete is made as soon as an id is queued, the
\* rest of the batch left undelivered.
DeleteOkEarly(a) ==
    /\ pc[a] = "forward"
    /\ WantsDelete(a)
    /\ seen_ids' = [seen_ids EXCEPT ![a] = RemoveAll(@, to_delete[a])]
    /\ StartNotify(a, successfully_processed[a])
    /\ Log(a, DeleteCall(to_delete[a], TRUE))
    /\ UNCHANGED <<taskOther, ticker, interval_seconds, shutdown_rx, emails,
                   idx, to_delete, successfully_processed, batch, seen0,
                   fetch_failed, notify_err, forwarded, notified, undeleted, failed>>

\* Variant of DeleteOk: a successful delete empties the set.
DeleteOkForgetsAll(a) ==
    /\ ForwardOver(a)
    /\ WantsDelete(a)
    /\ seen_ids' = [seen_ids EXCEPT ![a] = {}]
    /\ StartNotify(a, successfully_processed[a])
    /\ Log(a, DeleteCall(to_delete[a], TRUE))
    /\ UNCHANGED <<taskOther, ticker, interval_seconds, shutdown_rx, emails,
                   idx, to_delete, successfully_processed, batch, seen0,
                   fetch_failed, notify_err, forwarded, notified, undeleted, failed>>

\* Variant of DeleteOk: the deleted ids stay in the set.
DeleteOkKeepsSeen(a) ==
    /\ ForwardOver(a)
    /\ WantsDelete(a)
    /\ StartNotify(a, successfully_processed[a])
    /\ Log(a, DeleteCall(to_delete[a], TRUE))
    /\ UNCHANGED <<taskOther, ticker, interval_seconds, shutdown_rx, seen_ids,
                   emails, idx, to_delete, successfully_processed, batch, seen0,
                   fetch_failed, notify_err, forwarded, notified, undeleted, failed>>

DeleteOk(a) ==
    /\ ForwardOver(a)
    /\ WantsDelete(a)
    /\ seen_ids' = [seen_ids EXCEPT ![a] = RemoveAll(@, to_delete[a])]
    /\ StartNotify(a, successfully_processed[a])
    /\ Log(a, DeleteCall(to_delete[a], TRUE))
    /\ UNCHANGED <<taskOther, ticker, interval_seconds, shutdown_rx, emails,
                   idx, to_delete, successfully_processed, batch, seen0,
                   fetch_failed, notify_err, forwarded, notified, undeleted, failed>>

\* Variant of DeleteErr: the notifications are sent although the delete failed.
DeleteErrNotifies(a) ==
    /\ ForwardOver(a)
    /\ WantsDelete(a)
    /\ StartNotify(a, successfully_processed[a])
    /\ Log(a, DeleteCall(to_delete[a], FALSE))
    /\ undeleted' = [undeleted EXCEPT ![a] = @ \cup {to_delete[a][k] : k \in DOMAIN to_delete[a]}]
    /\ UNCHANGED <<taskOther, ticker, interval_seconds, shutdown_rx, seen_ids,
                   emails, idx, to_delete, successfully_processed, batch, seen0,
                   fetch_failed, notify_err, forwarded, notified, failed>>

\* Variant of DeleteErr: the ids leave seen_ids although the delete failed.
DeleteErrForgets(a) ==
    /\ ForwardOver(a)
    /\ WantsDelete(a)
    /\ seen_ids' = [seen_ids EXCEPT ![a] = RemoveAll(@, to_delete[a])]
    /\ StartNotify(a, <<>>)
    /\ Log(a, DeleteCall(to_delete[a], FALSE))
    /\ undeleted' = [undeleted EXCEPT ![a] = @ \cup {to_delete[a][k] : k \in DOMAIN to_delete[a]}]
    /\ UNCHANGED <<taskOther, ticker, interval_seconds, shutdown_rx, emails,
                   idx, to_delete, successfully_processed, batch, seen0,
                   fetch_failed, notify_err, forwarded, notified, failed>>

\* main.rs 161-162, 176-181: delete_emails returns Err: notify_emails is empty.
\* Variant of DeleteErr: the failed delete ends the account's loop.
DeleteErrStops(a) ==
    /\ ForwardOver(a)
    /\ WantsDelete(a)
    /\ pc' = [pc EXCEPT ![a] = "stopped"]
    /\ Log(a, DeleteCall(to_delete[a], FALSE))
    /\ undeleted' = [undeleted EXCEPT ![a] = @ \cup {to_delete[a][k] : k \in DOMAIN to_delete[a]}]
    /\ UNCHANGED <<taskOther, ticker, interval_seconds, shutdown_rx, seen_ids,
                   stepVars, batch, seen0, fetch_failed, notify_err,
                   forwarded, notified, failed>>

DeleteErr(a) ==
    /\ ForwardOver(a)
    /\ WantsDelete(a)
    /\ StartNotify(a, <<>>)
    /\ Log(a, DeleteCall(to_delete[a], FALSE))
    /\ undeleted' = [undeleted EXCEPT ![a] = @ \cup {to_delete[a][k] : k \in DOMAIN to_delete[a]}]
    /\ UNCHANGED <<taskOther, ticker, interval_seconds, shutdown_rx, seen_ids,
                   emails, idx, to_delete, successfully_processed, batch, seen0,
                   fetch_failed, notify_err, forwarded, notified, failed>>

\* Variant of DeleteSkip: the delete may be skipped when it is due.
DeleteSkipAlways(a) ==
    /\ ForwardOver(a)
    /\ StartNotify(a, successfully_processed[a])
    /\ UNCHANGED <<taskOther, ticker, interval_seconds, shutdown_rx, seen_ids,
                   emails, idx, to_delete, successfully_processed, cycleHist,
                   forwarded, notified, undeleted, failed>>

\* main.rs 161, 183-186: no deletion configured or nothing to delete:
\* notify_emails = successfully_processed.
\* Variant of DeleteSkip: the ids are taken out of seen_ids though no delete
\* call is made.
DeleteSkipForgets(a) ==
    /\ ForwardOver(a)
    /\ ~WantsDelete(a)
    /\ seen_ids' = [seen_ids EXCEPT ![a] = RemoveAll(@, to_delete[a])]
    /\ StartNotify(a, successfully_processed[a])
    /\ UNCHANGED <<taskOther, ticker, interval_seconds, shutdown_rx,
                   emails, idx, to_delete, successfully_processed, cycleHist,
                   forwarded, notified, undeleted, failed>>

DeleteSkip(a) ==
    /\ ForwardOver(a)
    /\ ~WantsDelete(a)
    /\ StartNotify(a, successfully_processed[a])
    /\ UNCHANGED <<taskOther, ticker, interval_seconds, shutdown_rx, seen_ids,
                   emails, idx, to_delete, successfully_processed, cycleHist,
                   forwarded, notified, undeleted, failed>>

\* The pair after <<i, j>> in `for email .. { for notification .. }`.
NextPair(i, j) == IF j < notifications THEN <<i, j + 1>> ELSE <<i + 1, 1>>

\* Variant of Notify: after a failed call the remaining notifiers of the
\* email are skipped.
NotifyBreaks(a, ok) ==
    /\ InNotify(a)
    /\ nidx' = [nidx EXCEPT ![a] =
           IF ok THEN NextPair(@[1], @[2]) ELSE <<@[1] + 1, 1>>]
    /\ Log(a, NotifyCall(notify_emails[a][nidx[a][1]], nidx[a][2]))
    /\ notify_err' = [notify_err EXCEPT ![a] =
           IF @ # "none" THEN "earlier" ELSE IF ok THEN "none" ELSE "last"]
    /\ UNCHANGED <<taskOther, pc, ticker, interval_seconds, shutdown_rx,
                   seen_ids, emails, idx, to_delete, successfully_processed,
                   notify_emails, batch, seen0, fetch_failed, forwarded,
                   notified, undeleted, failed>>

\* main.rs 189-197: one notification.notify(&email, forward_to) call; an Err
\* is logged and the loops go on.
Notify(a, ok) ==
    /\ InNotify(a)
    /\ nidx' = [nidx EXCEPT ![a] = NextPair(@[1], @[2])]
    /\ Log(a, NotifyCall(notify_emails[a][nidx[a][1]], nidx[a][2]))
    /\ notify_err' = [notify_err EXCEPT ![a] =
           IF @ # "none" THEN "earlier" ELSE IF ok THEN "none" ELSE "last"]
    /\ UNCHANGED <<taskOther, pc, ticker, interval_seconds, shutdown_rx,
                   seen_ids, emails, idx, to_delete, successfully_processed,
                   notify_emails, batch, seen0, fetch_failed,
                   forwarded, notified, undeleted,
                   failed>>

\* Notify, with the call recorded in the lifetime history notified.
NotifyRecorded(a, ok) ==
    /\ InNotify(a)
    /\ nidx' = [nidx EXCEPT ![a] = NextPair(@[1], @[2])]
    /\ Log(a, NotifyCall(notify_emails[a][nidx[a][1]], nidx[a][2]))
    /\ UNCHANGED undeleted
    /\ notified' = [notified EXCEPT ![a] =
           @ \cup {<<notify_emails[a][nidx[a][1]].id, nidx[a][2]>>}]
    /\ notify_err' = [notify_err EXCEPT ![a] =
           IF @ # "none" THEN "earlier" ELSE IF ok THEN "none" ELSE "last"]
    /\ UNCHANGED <<taskOther, pc, ticker, interval_seconds, shutdown_rx,
                   seen_ids, emails, idx, to_delete, successfully_processed,
                   notify_emails, batch, seen0, fetch_failed, forwarded,
                   failed>>

\* main.rs 198-199: the loops are over (or the notification list is empty),
\* process_emails returns.
ProcessDone(a) ==
    /\ pc[a] = "notify"
    /\ ~InNotify(a)
    /\ pc' = [pc EXCEPT ![a] = "returned"]
    /\ emails' = [emails EXCEPT ![a] = <<>>]
    /\ idx' = [idx EXCEPT ![a] = 0]
    /\ to_delete' = [to_delete EXCEPT ![a] = <<>>]
    /\ successfully_processed' = [successfully_processed EXCEPT ![a] = <<>>]
    /\ notify_emails' = [notify_emails EXCEPT ![a] = <<>>]
    /\ nidx' = [nidx EXCEPT ![a] = <<0, 0>>]
    /\ UNCHANGED <<taskOther, ticker, interval_seconds, shutdown_rx, seen_ids,
                   cycleHist, forwarded, notified, undeleted, failed>>

\* main.rs 261-267, 241-242: the end of the loop body; the task is back at the
\* select!.  The history of the cycle is dropped.
LoopBack(a) ==
    /\ pc[a] = "returned"
    /\ pc' = [pc EXCEPT ![a] = "waiting"]
    /\ calls' = [calls EXCEPT ![a] = <<>>]
    /\ batch' = [batch EXCEPT ![a] = <<>>]
    /\ seen0' = [seen0 EXCEPT ![a] = seen_ids[a]]
    /\ notify_err' = [notify_err EXCEPT ![a] = "none"]
    /\ UNCHANGED <<taskOther, ticker, interval_seconds, shutdown_rx, seen_ids,
                   stepVars, fetch_failed, forwarded, notified, undeleted, failed>>

\* Variant of Panic: the panic of a task also sends the shutdown signal.
PanicShutsDown(a) ==
    /\ pc[a] \in {"fetching", "forward", "notify"}
    /\ pc' = [pc EXCEPT ![a] = "panicked"]
    /\ shutdown_rx' = [b \in Tasks |-> shutdown_rx[b] + 1]
    /\ emails' = [emails EXCEPT ![a] = <<>>]
    /\ idx' = [idx EXCEPT ![a] = 0]
    /\ to_delete' = [to_delete EXCEPT ![a] = <<>>]
    /\ successfully_processed' = [successfully_processed EXCEPT ![a] = <<>>]
    /\ notify_emails' = [notify_emails EXCEPT ![a] = <<>>]
    /\ nidx' = [nidx EXCEPT ![a] = <<0, 0>>]
    /\ UNCHANGED <<taskOther, ticker, interval_seconds, seen_ids, cycleHist,
                   forwarded, notified, undeleted, failed>>

\* main.rs 305-314: a panic inside the spawned future (an external call that
\* unwinds).  tokio::spawn catches it: the task ends, its locals are dropped
\* and its JoinHandle yields Err(JoinError).
Panic(a) ==
    /\ pc[a] \in {"fetching", "forward", "notify"}
    /\ pc' = [pc EXCEPT ![a] = "panicked"]
    /\ emails' = [emails EXCEPT ![a] = <<>>]
    /\ idx' = [idx EXCEPT ![a] = 0]
    /\ to_delete' = [to_delete EXCEPT ![a] = <<>>]
    /\ successfully_processed' = [successfully_processed EXCEPT ![a] = <<>>]
    /\ notify_emails' = [notify_emails EXCEPT ![a] = <<>>]
    /\ nidx' = [nidx EXCEPT ![a] = <<0, 0>>]
    /\ UNCHANGED <<taskOther, ticker, interval_seconds, shutdown_rx, seen_ids,
                   cycleHist, forwarded, notified, undeleted, failed>>

\* ------------------------------------------------------------------ next
Next ==
    \/ Spawn
    \/ SpawnDone
    \/ CtrlC
    \/ Join
    \/ Exit
    \/ \E a \in Tasks : TaskStart(a)
    \/ \E a \in Tasks : TimerElapse(a)
    \/ \E a \in Tasks : SelectShutdown(a)
    \/ \E a \in Tasks : SelectTick(a)
    \/ \E a \in Tasks, b \in Batches : FetchOk(a, b)
    \/ \E a \in Tasks : FetchErr(a)
    \/ \E a \in Tasks : ForwardSkip(a)
    \/ \E a \in Tasks : ForwardOk(a)
    \/ \E a \in Tasks : ForwardErr(a)
    \/ \E a \in Tasks : DeleteOk(a)
    \/ \E a \in Tasks : DeleteErr(a)
    \/ \E a \in Tasks : DeleteSkip(a)
    \/ \E a \in Tasks, ok \in BOOLEAN : Notify(a, ok)
    \/ \E a \in Tasks : ProcessDone(a)
    \/ \E a \in Tasks : LoopBack(a)

Spec == Init /\ [][Next]_vars

\* The same program with every notify call recorded in notified, which Spec
\* leaves empty.
NextRecorded ==
    \/ Spawn
    \/ SpawnDone
    \/ CtrlC
    \/ Join
    \/ Exit
    \/ \E a \in Tasks : TaskStart(a)
    \/ \E a \in Tasks : TimerElapse(a)
    \/ \E a \in Tasks : SelectShutdown(a)
    \/ \E a \in Tasks : SelectTick(a)
    \/ \E a \in Tasks, b \in Batches : FetchOk(a, b)
    \/ \E a \in Tasks : FetchErr(a)
    \/ \E a \in Tasks : ForwardSkip(a)
    \/ \E a \in Tasks : ForwardOk(a)
    \/ \E a \in Tasks : ForwardErr(a)
    \/ \E a \in Tasks : DeleteOk(a)
    \/ \E a \in Tasks : DeleteErr(a)
    \/ \E a \in Tasks : DeleteSkip(a)
    \/ \E a \in Tasks, ok \in BOOLEAN : NotifyRecorded(a, ok)
    \/ \E a \in Tasks : ProcessDone(a)
    \/ \E a \in Tasks : LoopBack(a)

\* The configurations of Init in which a notify call can be made, Some(false)
\* left out as it is read like None.
InitRecorded ==
    /\ Init
    /\ notifications >= 1
    /\ \A a \in Tasks : receivers[a].delete_after_forward # "Some(false)"

SpecRecorded == InitRecorded /\ [][NextRecorded]_vars

\* The configurations of Init whose account has delete_after_forward set.
InitDelete ==
    /\ Init
    /\ \A a \in Tasks : DeleteAfterForward(a)

SpecDelete == InitDelete /\ [][Next]_vars

\* The steps of main() other than the wait for the interrupt.
MainStep == Spawn \/ SpawnDone \/ Join \/ Exit

\* The steps of task a that are the return of a call or plain code.
TaskStep(a) ==
    \/ TaskStart(a)
    \/ \E b \in Batches : FetchOk(a, b)
    \/ FetchErr(a)
    \/ ForwardSkip(a)
    \/ ForwardOk(a)
    \/ ForwardErr(a)
    \/ DeleteOk(a)
    \/ DeleteErr(a)
    \/ DeleteSkip(a)
    \/ \E ok \in BOOLEAN : Notify(a, ok)
    \/ ProcessDone(a)
    \/ LoopBack(a)

\* The runtime polls every task that can run and every external call returns
\* (weak fairness of the steps); tokio::select! starts polling at a branch
\* chosen at random, so a shutdown branch that is ready at the select! again
\* and again is taken at some point (strong fairness of SelectShutdown).
\* Nothing forces the interrupt or the timer.
Fairness ==
    /\ WF_vars(MainStep)
    /\ \A a \in MultiTasks : WF_vars(TaskStep(a)) /\ SF_vars(SelectShutdown(a))

\* One account with any configured check_interval_seconds, up to the point
\* where its task has computed the interval and is at the select!.
InitInterval ==
    /\ receivers \in [1..1 -> {r \in ReceiverConfigs :
                                  r.delete_after_forward = "None"}]
    /\ notifications = 0
    /\ listener = "Ok"
    /\ username = "me@example.org"
    /\ InitShared
    /\ InitPop3
    /\ mailbox = [a \in 1..1 |-> [ids |-> Ids, max |-> MaxBatch]]
    /\ main_pc = "spawn"
    /\ handles = 0
    /\ joined = 0
    /\ InitTasks(1)

NextInterval ==
    \/ Spawn
    \/ SpawnDone
    \/ \E a \in Tasks : TaskStart(a)

SpecInterval == InitInterval /\ [][NextInterval]_vars

\* Two accounts, no panics.
SpecMulti == InitMulti /\ [][Next]_vars /\ Fairness

\* Two accounts whose tasks can panic.
NextPanic == Next \/ \E a \in Tasks : Panic(a)

SpecPanic == InitMulti /\ [][NextPanic]_vars /\ Fairness

TypeOK ==
    /\ pc \in [Tasks -> {"unspawned", "init", "waiting", "fetching", "forward",
                         "notify", "returned", "stopped", "panicked"}]
    /\ main_pc \in {"spawn", "ctrl_c", "join", "done"}
    /\ \A a \in Tasks : seen_ids[a] \subseteq Ids /\ shutdown_rx[a] \in 0..1

\* ------------------------------------ the shared SmtpSender and notifiers
\* Everything but the inside of the shared objects.
loopVars == <<receivers, notifications, listener, mailbox, mainVars, pc,
              interval_seconds, ticker, shutdown_rx, seen_ids, stepVars,
              cycleHist, forwarded, notified, undeleted, failed, sig_pc>>

\* Strings that stand for addresses: the ones str::parse::<Address> accepts
\* and one it rejects.
ValidAddrs == {"me@example.org", "to@example.org"}
\* The values of SenderConfig.username and of forward_to.
Usernames == {"me@example.org", "no address"}
Targets == {"to@example.org", "no address"}

\* Raw message contents, as sequences of chunks of bytes: a plain message,
\* and a message that was forwarded once already.
RawContents ==
    {<<"Subject: hi\r\n", "\r\n", "text">>,
     <<"X-Forwarded-By: mail-forwarder\r\n", "Subject: hi\r\n">>}

\* The values chrono::Utc::now().to_rfc3339() can take.
Times == {"2024-01-01T00:00:00+00:00", "2024-01-01T00:00:01+00:00"}

\* str::parse::<Address>(): Ok(address) as <<address>>, Err as <<>>.
ParseAddress(s) == IF s \in ValidAddrs THEN <<[address |-> s]>> ELSE <<>>

\* smtp_sender.rs 103-115: Err, as <<>>, when either address does not parse,
\* else Ok(Envelope::new(Some(sender_addr), vec![target_addr])), as <<envelope>>.
create_envelope(target_address) ==
    LET sender_addr == ParseAddress(username)
        target_addr == ParseAddress(target_address)
    IN  IF sender_addr = <<>> \/ target_addr = <<>> THEN <<>>
        ELSE <<[from |-> sender_addr, to |-> <<target_addr[1]>>]>>

\* Variant of final_content: the headers are appended after the content.
final_content_appended(email, now) ==
    email.content \o
    <<"X-Forwarded-By: mail-forwarder\r\n",
      "X-Original-Message-ID: ", email.id, "\r\n",
      "X-Forwarded-Time: ", now, "\r\n">>

\* smtp_sender.rs 128-141: the three header lines, then email.content.
final_content(email, now) ==
    <<"X-Forwarded-By: mail-forwarder\r\n",
      "X-Original-Message-ID: ", email.id, "\r\n",
      "X-Forwarded-Time: ", now, "\r\n">>
    \o email.content

\* The caller goes to position p.
Goto(c, p) == at' = [at EXCEPT ![c] = p]

\* send_email returns r to caller c.
Return(c, r) ==
    /\ Goto(c, "idle")
    /\ ret' = [ret EXCEPT ![c] = r]
    /\ arg' = [arg EXCEPT ![c] = <<>>]

\* The caller has the mailer instance i (`let mailer = ...?`).
Have(c, i) ==
    /\ Goto(c, "have")
    /\ arg' = [arg EXCEPT ![c].inst = i]

\* main.rs 138: a task calls sender.send_email(&email, forward_to).
SendEmail(c, email, target) ==
    /\ at[c] = "idle"
    /\ Goto(c, "get")
    /\ arg' = [arg EXCEPT ![c] = [email |-> email, target |-> target, inst |-> 0]]
    /\ relay' = [relay EXCEPT ![c] = <<>>]
    /\ ret' = [ret EXCEPT ![c] = "none"]
    /\ UNCHANGED <<loopVars, pop3Vars, username, mailer, permit, created, failures,
                   file_lock>>

\* smtp_sender.rs 121-124, get_or_try_init: the cell is initialized, its
\* value is returned.
GetInitialized(c) ==
    /\ at[c] = "get"
    /\ mailer # 0
    /\ Have(c, mailer)
    /\ UNCHANGED <<loopVars, pop3Vars, username, mailer, permit, created, failures,
                   file_lock, relay, ret>>

\* smtp_sender.rs 121-124, get_or_try_init: the cell is empty, the caller
\* awaits the cell's semaphore.
GetEmpty(c) ==
    /\ at[c] = "get"
    /\ mailer = 0
    /\ Goto(c, "acquire")
    /\ UNCHANGED <<loopVars, pop3Vars, username, mailer, permit, created, failures,
                   file_lock, arg, relay, ret>>

\* Variant of AcquirePermit: a waiter gets the permit whether or not the
\* cell was set in the meantime.
AcquirePermitAlways(c) ==
    /\ at[c] = "acquire"
    /\ permit = 0
    /\ permit' = c
    /\ Goto(c, "create")
    /\ UNCHANGED <<loopVars, pop3Vars, username, mailer, created, failures, file_lock,
                   arg, relay, ret>>

\* smtp_sender.rs 121-124, get_or_try_init: the semaphore has one permit and
\* is open while the cell is empty; the caller that gets the permit runs the
\* closure.
AcquirePermit(c) ==
    /\ at[c] = "acquire"
    /\ mailer = 0
    /\ permit = 0
    /\ permit' = c
    /\ Goto(c, "create")
    /\ UNCHANGED <<loopVars, pop3Vars, username, mailer, created, failures, file_lock,
                   arg, relay, ret>>

\* smtp_sender.rs 121-124, get_or_try_init: setting the cell closes the
\* semaphore, a caller waiting on it wakes up and takes the cell's value.
AcquireClosed(c) ==
    /\ at[c] = "acquire"
    /\ mailer # 0
    /\ Have(c, mailer)
    /\ UNCHANGED <<loopVars, pop3Vars, username, mailer, permit, created, failures,
                   file_lock, relay, ret>>

\* smtp_sender.rs 121-124: factory.create returns Ok(a new mailer); the cell
\* is set to it and the permit is gone with the closed semaphore.
CreateOk(c) ==
    /\ at[c] = "create"
    /\ created' = created + 1
    /\ mailer' = created + 1
    /\ permit' = 0
    /\ Have(c, created + 1)
    /\ UNCHANGED <<loopVars, pop3Vars, username, failures, file_lock, relay, ret>>

\* Variant of CreateErr: the permit is not given back.
CreateErrKeepsPermit(c) ==
    /\ at[c] = "create"
    /\ failures < MaxCreateErr
    /\ failures' = failures + 1
    /\ Return(c, "ErrCreate")
    /\ UNCHANGED <<loopVars, pop3Vars, username, mailer, permit, created, file_lock,
                   relay>>

\* smtp_sender.rs 121-124: factory.create returns Err; get_or_try_init drops
\* the permit, leaves the cell empty and returns the error, which `?`
\* returns from send_email.
CreateErr(c) ==
    /\ at[c] = "create"
    /\ failures < MaxCreateErr
    /\ failures' = failures + 1
    /\ permit' = 0
    /\ Return(c, "ErrCreate")
    /\ UNCHANGED <<loopVars, pop3Vars, username, mailer, created, file_lock, relay>>

\* smtp_sender.rs 126: create_envelope fails, `?` returns the error.
EnvelopeErr(c) ==
    /\ at[c] = "have"
    /\ create_envelope(arg[c].target) = <<>>
    /\ Return(c, "ErrEnvelope")
    /\ UNCHANGED <<loopVars, pop3Vars, username, mailer, permit, created, failures,
                   file_lock, relay>>

\* smtp_sender.rs 126-143: the envelope and the content are built and
\* mailer.send(envelope, &final_content) is awaited.
MailerSend(c, now) ==
    /\ at[c] = "have"
    /\ create_envelope(arg[c].target) # <<>>
    /\ relay' = [relay EXCEPT ![c] =
           <<[inst |-> arg[c].inst,
              envelope |-> create_envelope(arg[c].target)[1],
              data |-> final_content(arg[c].email, now)]>>]
    /\ Goto(c, "send")
    /\ UNCHANGED <<loopVars, pop3Vars, username, mailer, permit, created, failures,
                   file_lock, arg, ret>>

\* smtp_sender.rs 143: mailer.send returns, and send_email with it.
SendReturn(c, ok) ==
    /\ at[c] = "send"
    /\ Return(c, IF ok THEN "Ok" ELSE "ErrSend")
    /\ UNCHANGED <<loopVars, pop3Vars, username, mailer, permit, created, failures,
                   file_lock, relay>>

\* main.rs 191: a task calls notify on the shared FileNotification;
\* notifications.rs 101: it awaits the lock.
NotifyFile(c) ==
    /\ at[c] = "idle"
    /\ Goto(c, "lock")
    /\ UNCHANGED <<loopVars, pop3Vars, username, mailer, permit, created, failures,
                   file_lock, arg, relay, ret>>

\* notifications.rs 101: the lock is free, the caller takes the guard and
\* goes on to open the file and write to it.
LockAcquire(c) ==
    /\ at[c] = "lock"
    /\ file_lock = 0
    /\ file_lock' = c
    /\ Goto(c, "write")
    /\ UNCHANGED <<loopVars, pop3Vars, username, mailer, permit, created, failures,
                   arg, relay, ret>>

\* Variant of WriteReturn: the guard outlives the call.
WriteReturnKeepsGuard(c) ==
    /\ at[c] = "write"
    /\ Goto(c, "idle")
    /\ UNCHANGED <<loopVars, pop3Vars, username, mailer, permit, created, failures,
                   file_lock, arg, relay, ret>>

\* notifications.rs 102-116: the open or the write returns (Ok or Err), notify
\* returns and _guard is dropped.
WriteReturn(c) ==
    /\ at[c] = "write"
    /\ file_lock' = 0
    /\ Goto(c, "idle")
    /\ UNCHANGED <<loopVars, pop3Vars, username, mailer, permit, created, failures,
                   arg, relay, ret>>

\* main.rs 162, 191, 250: a task starts one of its other external calls
\* (fetch_emails or delete_emails on its own receiver, notify on the Telegram
\* or the e-mail notifier), none of which takes a lock.
ExternalCall(c) ==
    /\ at[c] = "idle"
    /\ Goto(c, "call")
    /\ UNCHANGED <<loopVars, pop3Vars, username, mailer, permit, created, failures,
                   file_lock, arg, relay, ret>>

\* That call returns.
ExternalReturn(c) ==
    /\ at[c] = "call"
    /\ Goto(c, "idle")
    /\ UNCHANGED <<loopVars, pop3Vars, username, mailer, permit, created, failures,
                   file_lock, arg, relay, ret>>

\* The e-mails a task can hand to send_email.
SendArgs == {MkEmail(id, content, 1) : id \in Ids, content \in RawContents}

\* A step of caller c.
CallerStep(c) ==
    \/ \E email \in SendArgs, target \in Targets : SendEmail(c, email, target)
    \/ GetInitialized(c)
    \/ GetEmpty(c)
    \/ AcquirePermit(c)
    \/ AcquireClosed(c)
    \/ CreateOk(c)
    \/ CreateErr(c)
    \/ EnvelopeErr(c)
    \/ \E now \in Times : MailerSend(c, now)
    \/ \E ok \in BOOLEAN : SendReturn(c, ok)
    \/ NotifyFile(c)
    \/ LockAcquire(c)
    \/ WriteReturn(c)
    \/ ExternalCall(c)
    \/ ExternalReturn(c)

\* The two tasks of the two-account configuration as callers of the shared
\* objects, each making its external calls in any order; the loops themselves
\* stay where they are.
InitSender ==
    /\ receivers = <<Account("Some(true)"), Account("None")>>
    /\ notifications = 1
    /\ listener = "Ok"
    /\ mailbox = <<[ids |-> {1}, max |-> 1], [ids |-> {1}, max |-> 0]>>
    /\ main_pc = "ctrl_c"
    /\ handles = 2
    /\ joined = 0
    /\ InitTasks(2)
    /\ username \in Usernames
    /\ InitShared
    /\ InitPop3

NextShared == \E c \in MultiTasks : CallerStep(c)

SpecShared == InitSender /\ [][NextShared]_vars

\* ------------------------------------------- process_emails as a function
\* imap_receiver.rs 89-97: the receiver keeps the fetched messages whose id
\* is not in the seen_ids it was called with.
FilterSeen(fetched, seen) == SelectSeq(fetched, LAMBDA e : e.id \notin seen)

RECURSIVE ForwardLoop(_, _, _)
\* main.rs 130-158: the loop over the batch, from the state st of seen_ids,
\* to_delete, successfully_processed and the calls made; send_ok[pos] is the
\* result send_email gives for the e-mail fetched at pos.
ForwardLoop(es, st, send_ok) ==
    IF es = <<>> THEN st
    ELSE LET email == Head(es)
         IN  IF email.id \in st.seen_ids
             THEN ForwardLoop(Tail(es), st, send_ok)
             ELSE IF send_ok[email.pos]
             THEN ForwardLoop(Tail(es),
                      [seen_ids |-> st.seen_ids \cup {email.id},
                       to_delete |-> Append(st.to_delete, email.id),
                       successfully_processed |->
                           Append(st.successfully_processed, email),
                       calls |-> Append(st.calls, SendCall(email, TRUE))],
                      send_ok)
             ELSE ForwardLoop(Tail(es),
                      [st EXCEPT !.calls = Append(@, SendCall(email, FALSE))],
                      send_ok)

RECURSIVE NotifyLoop(_, _)
\* main.rs 189-198: for each e-mail, for each notifier of the list in order,
\* one notify call, whatever the calls return.
NotifyLoop(es, n) ==
    IF es = <<>> THEN <<>>
    ELSE IF n > notifications THEN NotifyLoop(Tail(es), 1)
    ELSE <<NotifyCall(Head(es), n)>> \o NotifyLoop(es, n + 1)

\* main.rs 125-199: the calls process_emails makes on a batch and the
\* seen_ids it leaves, given the result of delete_emails too.
process_emails(es, seen, delete_after_forward, send_ok, delete_ok) ==
    LET st == ForwardLoop(es, [seen_ids |-> seen, to_delete |-> <<>>,
                               successfully_processed |-> <<>>,
                               calls |-> <<>>], send_ok)
    IN  IF delete_after_forward /\ st.to_delete # <<>>
        THEN IF delete_ok
             THEN [seen_ids |-> RemoveAll(st.seen_ids, st.to_delete),
                   calls |-> st.calls \o <<DeleteCall(st.to_delete, TRUE)>>
                             \o NotifyLoop(st.successfully_processed, 1)]
             ELSE [seen_ids |-> st.seen_ids,
                   calls |-> Append(st.calls, DeleteCall(st.to_delete, FALSE))]
        ELSE [seen_ids |-> st.seen_ids,
              calls |-> st.calls \o NotifyLoop(st.successfully_processed, 1)]

\* ------------------------------------------------- reading the call history
\* The calls of task a's current cycle that satisfy a test, in call order.
SendsOf(a) == SelectSeq(calls[a], LAMBDA c : c.op = "send")
OkSendsOf(a) == SelectSeq(calls[a], LAMBDA c : c.op = "send" /\ c.ok)
DeletesOf(a) == SelectSeq(calls[a], LAMBDA c : c.op = "delete")
NotifiesOf(a) == SelectSeq(calls[a], LAMBDA c : c.op = "notify")
NotifiesBy(a, n) == SelectSeq(calls[a], LAMBDA c : c.op = "notify" /\ c.n = n)

PosOf(s) == [k \in DOMAIN s |-> s[k].pos]
Range(s) == {s[k] : k \in DOMAIN s}
Increasing(s) == \A j, k \in DOMAIN s : j < k => s[j] < s[k]

\* The ids delivered successfully in the current cycle.
OkSendIds(a) == {c.id : c \in Range(OkSendsOf(a))}

\* Task a's current cycle has run process_emails to its end.
Processed(a) == pc[a] = "returned"

\* ---------------------------------------------------------------- claims

\* C1: a Notifier is invoked for a message only if a delivery of that very
\* message returned success earlier in the same Process step.
C1_NotifyImpliesForwarded ==
    \A a \in Tasks : \A k \in DOMAIN calls[a] :
        calls[a][k].op = "notify" =>
            \E j \in 1..(k - 1) :
                /\ calls[a][j].op = "send"
                /\ calls[a][j].ok
                /\ calls[a][j].pos = calls[a][k].pos
                /\ calls[a][j].id = calls[a][k].id

\* A step that notified one message and failed to deliver another.
C1_Witness ==
    \E a \in Tasks :
        /\ NotifiesOf(a) # <<>>
        /\ \E c \in Range(SendsOf(a)) : ~c.ok

\* C2: with delete-after-forward enabled, a Notifier is invoked for a message
\* only after a batched delete whose id list contains its id returned success
\* in the same Process step.
C2_NotifyImpliesDeleted ==
    \A a \in Tasks : DeleteAfterForward(a) =>
        \A k \in DOMAIN calls[a] :
            calls[a][k].op = "notify" =>
                \E j \in 1..(k - 1) :
                    /\ calls[a][j].op = "delete"
                    /\ calls[a][j].ok
                    /\ calls[a][k].id \in Range(calls[a][j].ids)

\* A step with deletion enabled that notified a message.
C2_Witness ==
    \E a \in Tasks :
        /\ DeleteAfterForward(a)
        /\ Processed(a)
        /\ NotifiesOf(a) # <<>>

\* C3: with delete-after-forward enabled, when the batched delete fails no
\* Notifier is invoked in that step and every id delivered in the step is
\* still in seen_ids.
C3_DeleteFailureWithholds ==
    \A a \in Tasks :
        (DeleteAfterForward(a) /\ \E c \in Range(DeletesOf(a)) : ~c.ok) =>
            /\ NotifiesOf(a) = <<>>
            /\ OkSendIds(a) \subseteq seen_ids[a]

\* Scenario C: two deliveries succeeded, the delete failed, notifiers exist,
\* the step is over.
C3_Witness ==
    \E a \in Tasks :
        /\ DeleteAfterForward(a)
        /\ Processed(a)
        /\ notifications > 0
        /\ Len(OkSendsOf(a)) = 2
        /\ \E c \in Range(DeletesOf(a)) : ~c.ok

\* C4: seen_ids holds only ids that were delivered successfully, and an id
\* enters it only in the step that records its successful delivery.
C4_SeenOnlyForwarded ==
    /\ [](\A a \in Tasks : seen_ids[a] \subseteq forwarded[a])
    /\ [][\A a \in Tasks : \A id \in seen_ids'[a] \ seen_ids[a] :
            /\ Len(calls'[a]) = Len(calls[a]) + 1
            /\ calls'[a] = Append(calls[a], calls'[a][Len(calls'[a])])
            /\ calls'[a][Len(calls'[a])].op = "send"
            /\ calls'[a][Len(calls'[a])].ok
            /\ calls'[a][Len(calls'[a])].id = id]_vars

\* An id is in seen_ids after a step in which another delivery failed.
C4_Witness ==
    \E a \in Tasks :
        /\ Processed(a)
        /\ seen_ids[a] # {}
        /\ \E c \in Range(SendsOf(a)) : ~c.ok /\ c.id \notin seen_ids[a]

\* C5: an id leaves seen_ids only in the step in which a batched delete that
\* included it returned success.
C5_SeenRemovedOnlyByDelete ==
    [][\A a \in Tasks : \A id \in seen_ids[a] \ seen_ids'[a] :
            /\ Len(calls'[a]) = Len(calls[a]) + 1
            /\ calls'[a] = Append(calls[a], calls'[a][Len(calls'[a])])
            /\ calls'[a][Len(calls'[a])].op = "delete"
            /\ calls'[a][Len(calls'[a])].ok
            /\ id \in Range(calls'[a][Len(calls'[a])].ids)]_vars

\* The delete has just succeeded and its ids have left seen_ids, while an id
\* kept from an earlier cycle is still there.
C5_Witness ==
    \E a \in Tasks :
        /\ pc[a] = "notify"
        /\ calls[a] # <<>>
        /\ calls[a][Len(calls[a])].op = "delete"
        /\ calls[a][Len(calls[a])].ok
        /\ Range(calls[a][Len(calls[a])].ids) \cap seen_ids[a] = {}
        /\ seen_ids[a] # {}

\* C6: a Process step on a batch whose ids are all in seen_ids already makes
\* no delivery, no delete and no notification and leaves seen_ids unchanged.
C6_SeenBatchIsNoOp ==
    \A a \in Tasks :
        (\A k \in DOMAIN batch[a] : batch[a][k].id \in seen0[a]) =>
            /\ calls[a] = <<>>
            /\ seen_ids[a] = seen0[a]

\* A finished step, deletion enabled, on a non-empty batch of seen ids.
C6_Witness ==
    \E a \in Tasks :
        /\ Processed(a)
        /\ DeleteAfterForward(a)
        /\ Len(batch[a]) >= 2
        /\ \A k \in DOMAIN batch[a] : batch[a][k].id \in seen0[a]

\* C7: with delete-after-forward disabled, a Process step on a batch of unseen
\* messages adds exactly the delivered ids to seen_ids, makes no delete call
\* and has every notifier notified of the delivered messages in batch order.
C7_NoDeleteStep ==
    \A a \in Tasks :
        (/\ ~DeleteAfterForward(a)
         /\ Processed(a)
         /\ \A k \in DOMAIN batch[a] : batch[a][k].id \notin seen0[a]) =>
            /\ seen_ids[a] = seen0[a] \cup OkSendIds(a)
            /\ DeletesOf(a) = <<>>
            /\ Increasing(PosOf(OkSendsOf(a)))
            /\ \A n \in 1..notifications :
                   PosOf(NotifiesBy(a, n)) = PosOf(OkSendsOf(a))

\* Scenario A: two messages, both delivered, two notifiers.
C7_Witness ==
    \E a \in Tasks :
        /\ ~DeleteAfterForward(a)
        /\ Processed(a)
        /\ seen0[a] = {}
        /\ Len(batch[a]) = 2
        /\ Len(OkSendsOf(a)) = 2
        /\ notifications = 2

\* C8: when no delivery of the batch succeeds, the step leaves seen_ids
\* unchanged and makes neither a delete call nor a Notifier call.
C8_AllFailedStep ==
    \A a \in Tasks :
        OkSendsOf(a) = <<>> =>
            /\ seen_ids[a] = seen0[a]
            /\ DeletesOf(a) = <<>>
            /\ NotifiesOf(a) = <<>>

\* Scenario B with deletion enabled: every delivery was attempted and failed.
C8_Witness ==
    \E a \in Tasks :
        /\ DeleteAfterForward(a)
        /\ Processed(a)
        /\ notifications > 0
        /\ batch[a] # <<>>
        /\ Len(SendsOf(a)) = Len(batch[a])
        /\ OkSendsOf(a) = <<>>

\* Every message of the batch was delivered successfully.
AllDelivered(a) ==
    \A k \in DOMAIN batch[a] : \E c \in Range(OkSendsOf(a)) : c.pos = k

\* C9: with delete-after-forward enabled, when every delivery and the batched
\* delete succeed, no id of the batch is in seen_ids after the step, seen_ids
\* is what it was before, and every notifier is called exactly once for every
\* message of the batch.
C9_DeleteStep ==
    \A a \in Tasks :
        (/\ DeleteAfterForward(a)
         /\ Processed(a)
         /\ AllDelivered(a)
         /\ \E c \in Range(DeletesOf(a)) : c.ok) =>
            /\ \A k \in DOMAIN batch[a] : batch[a][k].id \notin seen_ids[a]
            /\ seen_ids[a] = seen0[a]
            /\ \A k \in DOMAIN batch[a] : \A n \in 1..notifications :
                   Cardinality({j \in DOMAIN calls[a] :
                       /\ calls[a][j].op = "notify"
                       /\ calls[a][j].pos = k
                       /\ calls[a][j].n = n}) = 1

\* Scenario D: two messages, both delivered and deleted, two notifiers.
C9_Witness ==
    \E a \in Tasks :
        /\ DeleteAfterForward(a)
        /\ Processed(a)
        /\ Len(batch[a]) = 2
        /\ AllDelivered(a)
        /\ \E c \in Range(DeletesOf(a)) : c.ok
        /\ notifications = 2
        /\ seen_ids[a] = {}

\* process_emails ran in full on the batch: every message was attempted or
\* skipped as seen, the delete was called when due, and every notifier was
\* called for every message due a notification.
StepComplete(a) ==
    /\ \A k \in DOMAIN batch[a] :
           \/ \E c \in Range(SendsOf(a)) : c.pos = k
           \/ batch[a][k].id \in seen0[a]
           \/ \E c \in Range(OkSendsOf(a)) : c.pos < k /\ c.id = batch[a][k].id
    /\ (DeleteAfterForward(a) /\ OkSendsOf(a) # <<>>) => Len(DeletesOf(a)) = 1
    /\ (\A c \in Range(DeletesOf(a)) : c.ok) =>
           \A n \in 1..notifications :
               PosOf(NotifiesBy(a, n)) = PosOf(OkSendsOf(a))

\* C10: a task becomes Stopped only from the Waiting point, it comes back to
\* the Waiting point of a cycle only after a failed fetch or after
\* process_emails returned, and process_emails returns only after it ran in
\* full on the whole batch, also when the signal was sent during the cycle.
C10_ShutdownOnlyAtWaiting ==
    /\ [][\A a \in Tasks :
            /\ (pc'[a] = "stopped" /\ pc[a] # "stopped") => pc[a] = "waiting"
            /\ (pc'[a] = "waiting" /\ pc[a] # "waiting") =>
                   pc[a] \in {"init", "fetching", "returned"}]_vars
    /\ [](\A a \in Tasks : pc[a] = "returned" => StepComplete(a))

\* Scenario E: the signal was sent inside the forward loop and is still
\* queued; the task went on to attempt every message of the batch, to call
\* the delete and to notify, and process_emails has returned.
C10_Witness ==
    \E a \in Tasks :
        /\ pc[a] = "returned"
        /\ sig_pc[a] = "forward"
        /\ shutdown_rx[a] = 1
        /\ Len(batch[a]) = MaxBatch
        /\ Len(SendsOf(a)) = MaxBatch
        /\ DeletesOf(a) # <<>>
        /\ NotifiesOf(a) # <<>>

\* C11: once the shutdown signal has been sent, every account task reaches
\* its stopped position, provided every call returns and the tasks are
\* scheduled fairly (the signal is on its way from the moment main leaves its
\* wait for the interrupt).
C11_SignalStopsEveryTask ==
    (main_pc = "join") ~> (\A a \in Tasks : pc[a] = "stopped")

\* Both tasks have stopped after a signal that found the first one inside its
\* forward loop and the second one at the select!.
C11_Witness ==
    /\ main_pc \in {"join", "done"}
    /\ Cardinality(Tasks) = 2
    /\ \A a \in Tasks : pc[a] = "stopped"
    /\ sig_pc[1] = "forward"
    /\ sig_pc[2] = "none"

\* C12: after the signal a task starts no new fetch: from the select! with
\* the signal queued it does not go on to fetch_emails, also when a tick of
\* the interval is ready as well.
C12_NoFetchAfterSignal ==
    [][\A a \in Tasks :
          (pc[a] = "waiting" /\ shutdown_rx[a] > 0) => pc'[a] # "fetching"]_vars

\* The positions of a task that is still running its loop.
Running == {"init", "waiting", "fetching", "forward", "notify", "returned"}

\* C13: main returns only after every task it spawned has terminated: when
\* main has returned, every configured account was spawned and awaited and no
\* task is at the select!, in fetch_emails or in process_emails.
C13_ReturnAfterAllTasks ==
    main_pc = "done" =>
        /\ handles = Len(receivers)
        /\ joined = handles
        /\ \A a \in Tasks : pc[a] \notin Running

\* main has returned after both tasks stopped; the signal had found each of
\* them inside a cycle.
C13_Witness ==
    /\ main_pc = "done"
    /\ Cardinality(Tasks) = 2
    /\ \A a \in Tasks : pc[a] = "stopped"
    /\ sig_pc[1] = "notify"
    /\ sig_pc[2] = "fetching"

\* C14: a task that panics stops neither main nor another task.  The step
\* in which a task panics changes nothing of main and nothing of the other
\* tasks; beside a panicked task another task still takes its ready tick and
\* stops only once the signal has been sent; and the drain of main completes.
C14_PanicIsIsolated ==
    /\ [][\A a \in Tasks :
             (pc'[a] = "panicked" /\ pc[a] # "panicked") =>
                 /\ UNCHANGED mainVars
                 /\ \A b \in Tasks \ {a} :
                        /\ pc'[b] = pc[b]
                        /\ ticker'[b] = ticker[b]
                        /\ shutdown_rx'[b] = shutdown_rx[b]
                        /\ seen_ids'[b] = seen_ids[b]]_vars
    /\ [](\A a \in Tasks : \A b \in Tasks \ {a} :
             pc[a] = "panicked" =>
                 /\ (pc[b] = "waiting" /\ ticker[b]) => ENABLED SelectTick(b)
                 /\ pc[b] = "stopped" => main_pc \in {"join", "done"})
    /\ (main_pc = "join") ~> (main_pc = "done")

\* main has returned although the first task panicked; the second task, which
\* was inside a cycle when the signal came, stopped at its select!.
C14_Witness ==
    /\ main_pc = "done"
    /\ Cardinality(Tasks) = 2
    /\ pc[1] = "panicked"
    /\ pc[2] = "stopped"
    /\ sig_pc[2] = "returned"

\* C15: a task performs its first fetch at once when it starts: when the task
\* arrives at its first select! a tick of the interval is ready, so the first
\* timer wait of the loop elapses instantly.
C15_FirstFetchImmediate ==
    [][\A a \in Tasks :
          (pc[a] = "init" /\ pc'[a] = "waiting") => ticker'[a]]_vars

\* C16: the poll interval a task uses is the configured value raised to at
\* least 10 seconds, and 300 seconds when none is configured; it is never
\* below 10.
C16_IntervalFloor ==
    \A a \in Tasks :
        pc[a] \notin {"unspawned", "init"} =>
            LET c == receivers[a].check_interval_seconds
            IN  /\ c = <<>> => interval_seconds[a] = 300
                /\ (c # <<>> /\ c[1] >= 10) => interval_seconds[a] = c[1]
                /\ (c # <<>> /\ c[1] < 10) => interval_seconds[a] = 10
                /\ interval_seconds[a] >= 10

\* A task configured with 3 seconds polls every 10 seconds.
C16_Witness ==
    \E a \in Tasks :
        /\ pc[a] = "waiting"
        /\ receivers[a].check_interval_seconds = <<3>>
        /\ interval_seconds[a] = 10

\* C17: when fetch_emails returns an error the cycle has no Process step: the
\* task is back at the select! with no delivery, delete or notify call made,
\* seen_ids as it was and no local of process_emails set, and it has not
\* stopped (it stops only later, on the signal).
C17_FetchErrorSkipsProcess ==
    \A a \in Tasks :
        fetch_failed[a] =>
            /\ pc[a] \in {"waiting", "stopped"}
            /\ pc[a] = "stopped" => main_pc \in {"join", "done"}
            /\ calls[a] = <<>>
            /\ batch[a] = <<>>
            /\ seen_ids[a] = seen0[a]
            /\ emails[a] = <<>>
            /\ to_delete[a] = <<>>
            /\ successfully_processed[a] = <<>>
            /\ notify_emails[a] = <<>>

\* A fetch error in a cycle after one that delivered a message: the task is
\* at the select! again, no signal has been sent, seen_ids is kept.
C17_Witness ==
    \E a \in Tasks :
        /\ fetch_failed[a]
        /\ pc[a] = "waiting"
        /\ main_pc = "ctrl_c"
        /\ seen_ids[a] # {}

\* C18: the cycles of one task are strictly sequential.  While a task is in
\* fetch_emails no Process step of it is under way (no local of
\* process_emails is set, no call of the cycle has been made), and while a
\* cycle is under way the task takes no tick, also when the tick is ready
\* because the cycle has outlasted the poll interval.
C18_CyclesSequential ==
    \A a \in Tasks :
        /\ pc[a] = "fetching" =>
               /\ calls[a] = <<>>
               /\ batch[a] = <<>>
               /\ emails[a] = <<>>
               /\ idx[a] = 0
               /\ to_delete[a] = <<>>
               /\ successfully_processed[a] = <<>>
               /\ notify_emails[a] = <<>>
               /\ nidx[a] = <<0, 0>>
        /\ pc[a] \in Busy => ~ENABLED SelectTick(a)

\* The poll interval has elapsed while the notifications of a full batch are
\* still being sent.
C18_Witness ==
    \E a \in Tasks :
        /\ InNotify(a)
        /\ ticker[a]
        /\ Len(batch[a]) = MaxBatch
        /\ NotifiesOf(a) # <<>>

\* The notification-eligible messages of task a's cycle, in batch order: the
\* ones delivered successfully, none of them if a delete call failed.
Eligible(a) ==
    IF \E k \in DOMAIN calls[a] : calls[a][k].op = "delete" /\ ~calls[a][k].ok
    THEN <<>>
    ELSE OkSendsOf(a)

\* C19: for every notification-eligible message every notifier is called
\* exactly once, in list order, whatever earlier notify calls returned: the
\* notify calls of a finished Process step are exactly the eligible messages
\* in order, each followed through notifiers 1, 2, .. of the list.
C19_EveryNotifierOnce ==
    \A a \in Tasks :
        Processed(a) =>
            /\ Len(NotifiesOf(a)) = Len(Eligible(a)) * notifications
            /\ \A k \in DOMAIN NotifiesOf(a) :
                   /\ NotifiesOf(a)[k].pos =
                          Eligible(a)[((k - 1) \div notifications) + 1].pos
                   /\ NotifiesOf(a)[k].n = ((k - 1) % notifications) + 1

\* Two eligible messages and two notifiers: four calls were made although a
\* call before the last one failed.
C19_Witness ==
    \E a \in Tasks :
        /\ Processed(a)
        /\ notifications = 2
        /\ Len(Eligible(a)) = 2
        /\ Len(NotifiesOf(a)) = 4
        /\ notify_err[a] = "earlier"

\* The positions of the batch whose delivery failed in task a's cycle.
FailedPos(a) == {c.pos : c \in {d \in Range(SendsOf(a)) : ~d.ok}}

\* C20: a message whose delivery failed is not added to seen_ids and is no
\* candidate for deletion or notification in that Process step, and when a
\* later fetch returns it again its delivery is attempted again (the skip
\* of seen ids does not apply to it) as long as no delivery of it succeeded.
C20_FailedDeliveryRetried ==
    \A a \in Tasks :
        /\ failed[a] \cap seen_ids[a] = {}
        /\ \A k \in DOMAIN successfully_processed[a] :
               successfully_processed[a][k].pos \notin FailedPos(a)
        /\ \A k \in DOMAIN notify_emails[a] :
               notify_emails[a][k].pos \notin FailedPos(a)
        /\ \A c \in Range(NotifiesOf(a)) : c.pos \notin FailedPos(a)
        /\ Range(to_delete[a]) \subseteq OkSendIds(a)
        /\ \A c \in Range(DeletesOf(a)) : Range(c.ids) \subseteq OkSendIds(a)
        /\ (InForward(a) /\ CurEmail(a).id \in failed[a]) =>
               /\ ~ENABLED ForwardSkip(a)
               /\ ENABLED ForwardOk(a)
               /\ ENABLED ForwardErr(a)
        /\ Processed(a) =>
               \A k \in DOMAIN batch[a] :
                   batch[a][k].id \notin seen0[a] =>
                       \E c \in Range(SendsOf(a)) : c.id = batch[a][k].id

\* A later cycle has fetched a message whose delivery failed in an earlier
\* cycle (no delivery was attempted in this cycle yet) and is about to
\* attempt it again.
C20_Witness ==
    \E a \in Tasks :
        /\ InForward(a)
        /\ CurEmail(a).id \in failed[a]
        /\ SendsOf(a) = <<>>
        /\ forwarded[a] = {}

\* The shutdown signal has been sent.
Signalled == main_pc \in {"join", "done"}

\* C21: main sends the shutdown signal, and so returns, only in response to
\* an operator's interrupt: whenever the signal has been sent, a task has a
\* signal queued or has stopped, ctrl_c() had installed its listener and
\* returned Ok.
C21_OnlyOperatorRequest ==
    (Signalled \/ \E a \in Tasks : shutdown_rx[a] > 0 \/ pc[a] = "stopped")
        => listener = "Ok"

\* C21 (amended): the signal is sent only by main's own step out of its wait
\* on ctrl_c(), whichever arm that returns with (the interrupt, or the error
\* of a listener that cannot be installed), and main returns only from its
\* drain.  No step of a task (a failed call, a panic) sends the signal or
\* moves main: before main's step no task has a signal queued or has stopped.
C21_SignalOnlyAfterCtrlC ==
    /\ [][/\ (\E a \in Tasks : shutdown_rx'[a] > shutdown_rx[a]) =>
                 /\ main_pc = "ctrl_c"
                 /\ main_pc' = "join"
                 /\ pc' = pc
          /\ main_pc' # main_pc =>
                 /\ pc' = pc
                 /\ <<main_pc, main_pc'>> \in
                        {<<"spawn", "ctrl_c">>, <<"ctrl_c", "join">>,
                         <<"join", "done">>}]_vars
    /\ [](~Signalled =>
              \A a \in Tasks : shutdown_rx[a] = 0 /\ pc[a] # "stopped")

\* main has returned after ctrl_c() failed to install its listener: both tasks
\* were stopped by the signal.
C21_Witness ==
    /\ main_pc = "done"
    /\ listener = "Err"
    /\ Cardinality(Tasks) = 2
    /\ \A a \in Tasks : pc[a] = "stopped"

\* C22: no failed fetch, delivery, delete or notify call ends an account's
\* loop: a spawned task is always at a point of its loop, or it has stopped
\* and then the shutdown signal had been sent.
C22_FailureNeverStops ==
    \A a \in Tasks :
        \/ pc[a] \in Running \cup {"unspawned"}
        \/ pc[a] = "stopped" /\ Signalled

\* A process step is over in which one delivery failed, another succeeded
\* and the batched delete of it failed; no signal was sent, and the loop goes
\* on to its next wait.
C22_Witness ==
    \E a \in Tasks :
        /\ Processed(a)
        /\ ~Signalled
        /\ \E c \in Range(SendsOf(a)) : ~c.ok
        /\ \E c \in Range(DeletesOf(a)) : ~c.ok
        /\ forwarded[a] # {}
        /\ ENABLED LoopBack(a)

\* The callers that hold a mailer: past get_or_try_init, or in mailer.send.
Holding == {c \in MultiTasks : at[c] \in {"have", "send"}}

\* C23: with the two tasks calling send_email concurrently, factory.create
\* returns a mailer at most once; from then on the cell holds that instance,
\* every caller past get_or_try_init holds it, and every mailer.send is a
\* call on it.
C23_MailerBuiltOnce ==
    /\ created <= 1
    /\ mailer = created
    /\ \A c \in Holding : created = 1 /\ arg[c].inst = mailer
    /\ \A c \in MultiTasks : relay[c] # <<>> => relay[c][1].inst = 1

\* Both tasks are inside mailer.send at once, on the one instance, after a
\* failed construction.
C23_Witness ==
    /\ \A c \in MultiTasks : at[c] = "send" /\ relay[c][1].inst = 1
    /\ failures >= 1
    /\ created = 1

\* C24: a send_email whose factory.create failed returns that error with
\* nothing handed to a mailer; the failure leaves the cell empty and the
\* permit free, so that the next send_email goes to factory.create again:
\* while no construction has succeeded, a caller at the cell finds it empty,
\* a waiter gets the free permit, and its construction can succeed.
C24_CreateErrNotCached ==
    /\ \A c \in MultiTasks :
           ret[c] = "ErrCreate" => relay[c] = <<>> /\ arg[c] = <<>>
    /\ created = 0 =>
           /\ mailer = 0
           /\ permit \in {0} \cup {c \in MultiTasks : at[c] = "create"}
           /\ \A c \in MultiTasks :
                  /\ at[c] = "get" => ENABLED GetEmpty(c)
                  /\ at[c] = "acquire" /\ permit = 0 => ENABLED AcquirePermit(c)
                  /\ at[c] = "create" => ENABLED CreateOk(c)

\* After two failed constructions a third one succeeded: one task is inside
\* mailer.send, the latest send_email of the other returned the construction
\* error.
C24_Witness ==
    \E c \in MultiTasks :
        /\ failures = 2
        /\ created = 1
        /\ at[c] = "send"
        /\ ret[3 - c] = "ErrCreate"

\* C25: what send_email hands to mailer.send is, in this order, the header
\* X-Forwarded-By, the header X-Original-Message-ID with the message's id,
\* the header X-Forwarded-Time, and then the original content, unchanged, as
\* the rest; the envelope goes from the configured username to one
\* recipient, the forwarding destination.
C25_HeadersThenContent ==
    \A c \in MultiTasks :
        at[c] = "send" =>
            LET data == relay[c][1].data
                envelope == relay[c][1].envelope
                email == arg[c].email
            IN  /\ Len(relay[c]) = 1
                /\ Len(data) = 7 + Len(email.content)
                /\ data[1] = "X-Forwarded-By: mail-forwarder\r\n"
                /\ data[2] = "X-Original-Message-ID: "
                /\ data[3] = email.id
                /\ data[4] = "\r\n"
                /\ data[5] = "X-Forwarded-Time: "
                /\ data[6] \in Times
                /\ data[7] = "\r\n"
                /\ SubSeq(data, 8, Len(data)) = email.content
                /\ envelope.from = <<[address |-> username]>>
                /\ envelope.to = <<[address |-> arg[c].target]>>

\* A message that carries an X-Forwarded-By header of its own is being sent.
C25_Witness ==
    \E c \in MultiTasks :
        /\ at[c] = "send"
        /\ arg[c].email.content[1] = "X-Forwarded-By: mail-forwarder\r\n"
        /\ arg[c].email.id = 2
        /\ arg[c].target = "to@example.org"

\* Caller c is inside an external call: mailer.send, the file I/O of the
\* FileNotification, or a call on its own receiver or another notifier.
InExternal(c) == at[c] \in {"send", "write", "call"}

\* C26: a task that is inside an external call never holds up the other
\* task: whatever the one is waiting for, the other has a step it can take.
C26_NeverHeldUp ==
    \A a, b \in MultiTasks :
        a # b /\ InExternal(a) => ENABLED CallerStep(b)

\* C26 (amended): a task inside an external call holds up the other task in
\* one case only: it is inside the file I/O of the shared FileNotification,
\* whose lock it holds, and the other is waiting for that lock in its own
\* notify.  In every other external call of the one, the other has a step it
\* can take.
C26_HeldUpOnlyByFileLock ==
    \A a, b \in MultiTasks :
        (a # b /\ InExternal(a) /\ ~ENABLED CallerStep(b)) =>
            /\ at[a] = "write"
            /\ file_lock = a
            /\ at[b] = "lock"

\* The first task is inside the file I/O of its notify, the second waits for
\* the lock and has no step; the mailer had been built before.
C26_Witness ==
    /\ at[1] = "write"
    /\ at[2] = "lock"
    /\ ~ENABLED CallerStep(2)
    /\ created = 1

\* The ids of a sequence of calls, in call order.
IdsOf(s) == [k \in DOMAIN s |-> s[k].id]

\* C27: a process step makes at most one delete call.  Once the step is
\* over it has made exactly one if delete_after_forward is on and a delivery
\* succeeded, and the call's list is the ids of the successful deliveries in
\* the order of the batch; otherwise it has made none.
C27_OneBatchedDelete ==
    \A a \in Tasks :
        /\ Len(DeletesOf(a)) <= 1
        /\ Processed(a) =>
               IF DeleteAfterForward(a) /\ OkSendsOf(a) # <<>>
               THEN /\ Len(DeletesOf(a)) = 1
                    /\ DeletesOf(a)[1].ids = IdsOf(OkSendsOf(a))
                    /\ Increasing(PosOf(OkSendsOf(a)))
               ELSE DeletesOf(a) = <<>>

\* A step is over that delivered both messages of its batch and deleted
\* them in one call.
C27_Witness ==
    \E a \in Tasks :
        /\ Processed(a)
        /\ Len(OkSendsOf(a)) = 2
        /\ Len(DeletesOf(a)) = 1
        /\ Len(DeletesOf(a)[1].ids) = 2

\* C28: within one lifetime a task never delivers an id successfully a second
\* time, whatever the mailbox reports again: when the loop is at an e-mail
\* whose id was delivered before, no successful delivery of it can follow.
C28_NeverDeliveredTwice ==
    \A a \in Tasks :
        (InForward(a) /\ CurEmail(a).id \in forwarded[a]) =>
            ~ENABLED ForwardOk(a)

\* C28 (amended): an id that was delivered stays in seen_ids, and is skipped
\* when reported again, until a successful delete call that lists it takes it
\* out; only a task with delete_after_forward on can so deliver an id a
\* second time, and only after that delete.
C28_RedeliveryOnlyAfterDelete ==
    /\ [](\A a \in Tasks :
              /\ forwarded[a] \ seen_ids[a] # {} => DeleteAfterForward(a)
              /\ (/\ InForward(a)
                  /\ CurEmail(a).id \in forwarded[a]
                  /\ ENABLED ForwardOk(a)) =>
                     /\ DeleteAfterForward(a)
                     /\ CurEmail(a).id \notin seen_ids[a])
    /\ [][\A a \in Tasks : \A id \in forwarded[a] :
              (id \in seen_ids[a] /\ id \notin seen_ids'[a]) =>
                  /\ DeleteAfterForward(a)
                  /\ Len(calls'[a]) = Len(calls[a]) + 1
                  /\ LET c == calls'[a][Len(calls'[a])]
                     IN  /\ c.op = "delete"
                         /\ c.ok
                         /\ id \in Range(c.ids)]_vars

\* A task that deletes after forwarding is at an e-mail whose id it has
\* delivered and deleted before, in a batch whose first e-mail it has just
\* delivered; the delivery of this one can succeed again.
C28_Witness ==
    \E a \in Tasks :
        /\ DeleteAfterForward(a)
        /\ InForward(a)
        /\ idx[a] = 2
        /\ CurEmail(a).id \in forwarded[a] \ seen_ids[a]
        /\ Len(OkSendsOf(a)) = 1
        /\ ENABLED ForwardOk(a)

\* The e-mail and the notifier of the notify call task a is about to make.
NotifyEmail(a) == notify_emails[a][nidx[a][1]]
NotifyPair(a) == <<NotifyEmail(a).id, nidx[a][2]>>

\* C29: over the cycles of a task, whatever deletes fail and whatever the
\* mailbox reports again, no notifier is invoked a second time for an id:
\* every notify call is for a pair of id and notifier that was not invoked
\* before.
C29_NotifiedOnce ==
    [][\A a \in Tasks :
           (InNotify(a) /\ Len(calls'[a]) = Len(calls[a]) + 1) =>
               NotifyPair(a) \notin notified[a]]_vars

\* C29 (amended): a notifier is invoked a second time for an id only by a
\* task with delete_after_forward on, for an id that it delivered again and
\* deleted again in this cycle, which it could only because the earlier
\* successful delete had taken the id out of seen_ids.  A cycle whose delete
\* failed notifies nobody and leaves its ids in seen_ids, so that a later
\* re-fetch of them is skipped; without delete_after_forward every notified
\* id stays in seen_ids.
C29_RenotifyOnlyAfterDelete ==
    \A a \in Tasks :
        /\ ~DeleteAfterForward(a) =>
               {p[1] : p \in notified[a]} \subseteq seen_ids[a]
        /\ (\E c \in Range(DeletesOf(a)) : ~c.ok) =>
               /\ NotifiesOf(a) = <<>>
               /\ OkSendIds(a) \subseteq seen_ids[a]
        /\ (InNotify(a) /\ NotifyPair(a) \in notified[a]) =>
               /\ DeleteAfterForward(a)
               /\ NotifyEmail(a).id \in OkSendIds(a)
               /\ \E c \in Range(DeletesOf(a)) :
                      c.ok /\ NotifyEmail(a).id \in Range(c.ids)

\* A task that deletes after forwarding has delivered and deleted again an
\* id it had notified before, and is about to invoke the second notifier for
\* it again, the first one done.
C29_Witness ==
    \E a \in Tasks :
        /\ DeleteAfterForward(a)
        /\ InNotify(a)
        /\ nidx[a][2] = 2
        /\ {<<NotifyEmail(a).id, 1>>, NotifyPair(a)} \subseteq notified[a]
        /\ Len(NotifiesOf(a)) = 1

\* The results the calls of task a's current cycle gave: of send_email for
\* the e-mail fetched at each position, and of delete_emails.
SendOk(a) ==
    [k \in DOMAIN batch[a] |-> \E c \in Range(SendsOf(a)) : c.pos = k /\ c.ok]
DeleteOkIn(a) == \E c \in Range(DeletesOf(a)) : c.ok

\* C30: what a cycle does is the same whether or not the receiver filters
\* the ids in seen_ids out of what it returns: once the process step on the
\* unfiltered batch is over, its calls (deliveries, delete, notifications, in
\* order) and the seen_ids it leaves are those process_emails gives on the
\* filtered batch with the same results of the calls.
C30_FilteringMakesNoDifference ==
    \A a \in Tasks :
        Processed(a) =>
            LET filtered == process_emails(FilterSeen(batch[a], seen0[a]),
                                seen0[a], DeleteAfterForward(a), SendOk(a),
                                DeleteOkIn(a))
                unfiltered == process_emails(batch[a], seen0[a],
                                  DeleteAfterForward(a), SendOk(a),
                                  DeleteOkIn(a))
            IN  /\ filtered.calls = calls[a]
                /\ filtered.seen_ids = seen_ids[a]
                /\ unfiltered = filtered

\* A step is over on a batch of an id that was in seen_ids, which a
\* filtering receiver would have left out, and an id that was not, which was
\* delivered.
C30_Witness ==
    \E a \in Tasks :
        /\ Processed(a)
        /\ Len(batch[a]) = 2
        /\ batch[a][1].id \in seen0[a]
        /\ Len(FilterSeen(batch[a], seen0[a])) = 1
        /\ Len(OkSendsOf(a)) = 1
        /\ NotifiesOf(a) # <<>>

\* The phase of process_emails a call belongs to.
Rank(c) == CASE c.op = "send" -> 1 [] c.op = "delete" -> 2 [] c.op = "notify" -> 3

\* The e-mail fetched at position k of task a's batch was dealt with by the
\* forward loop: delivery was attempted, or it was skipped for an id that
\* was seen before the cycle or delivered earlier in the batch.
Handled(a, k) ==
    \/ \E c \in Range(SendsOf(a)) : c.pos = k
    \/ batch[a][k].id \in seen0[a]
    \/ \E c \in Range(OkSendsOf(a)) : c.pos < k /\ c.id = batch[a][k].id

\* C31: the calls of a process step come in the order deliveries, delete,
\* notifications: the deliveries are in batch order, no delivery follows the
\* delete, no delete follows a notification, and once the delete or a
\* notification has been made the whole batch has been through the forward
\* loop.
C31_ForwardDeleteNotify ==
    \A a \in Tasks :
        /\ \A k \in 1..(Len(calls[a]) - 1) :
               Rank(calls[a][k]) <= Rank(calls[a][k + 1])
        /\ Increasing(PosOf(SendsOf(a)))
        /\ (DeletesOf(a) # <<>> \/ NotifiesOf(a) # <<>>) =>
               /\ pc[a] \in {"notify", "returned"}
               /\ \A k \in DOMAIN batch[a] : Handled(a, k)

\* A step with two deliveries, the second of them failed, then the delete,
\* then a notification.
C31_Witness ==
    \E a \in Tasks :
        /\ Len(calls[a]) = 4
        /\ calls[a][1].op = "send" /\ calls[a][1].ok
        /\ calls[a][2].op = "send" /\ ~calls[a][2].ok
        /\ calls[a][3].op = "delete" /\ calls[a][3].ok
        /\ calls[a][4].op = "notify"

\* Everything task a can change: its position, its timer and receiver, its
\* seen_ids, the locals of its process step and its histories of fetches and
\* calls.
TaskState(a) ==
    <<pc[a], ticker[a], shutdown_rx[a], seen_ids[a], emails[a], idx[a],
      to_delete[a], successfully_processed[a], notify_emails[a], nidx[a],
      calls[a], batch[a], fetch_failed[a], forwarded[a], failed[a]>>

\* C32: a task that has stopped stays stopped: it makes no further fetch,
\* delivery, delete or notification and its seen_ids no longer changes,
\* whatever the other task and main go on to do.
C32_StoppedIsTerminal ==
    [][\A a \in Tasks :
           pc[a] = "stopped" => TaskState(a)' = TaskState(a)]_vars

\* The second task has stopped with a tick ready, while the first is still
\* inside the forward loop of its cycle.
C32_Witness ==
    /\ pc[2] = "stopped"
    /\ ticker[2]
    /\ InForward(1)
    /\ main_pc = "join"

\* ------------------------------------------------------ the Pop3Receiver
\* What the unique-id lookup of an entry can answer; "2" is also the text of
\* a sequence number.
Uids == {"a", "2"}
\* What the retrieval of an entry can write.
RawBytes == {"x", "y"}
\* The ids delete_email is called with.
DeleteIds == {"a", "2", "1", "zz"}

\* One entry of the server's list: its sequence number (Pop3MessageInfo
\* .message_id), what get_unique_id and what retrieve answer for it.
Entries == [message_id : 1..MaxList,
            uid : {<<>>} \cup {<<u>> : u \in Uids},
            content : {<<>>} \cup {<<b>> : b \in RawBytes}]

\* The message lists of up to MaxList entries with distinct sequence numbers.
Lists ==
    UNION { { l \in [1..n -> Entries] :
                \A j, k \in 1..n : j # k => l[j].message_id # l[k].message_id } :
            n \in 0..MaxList }

\* How a server answers one session: factory.create (connect and login),
\* list, and the delete command.
Servers == [create : {"Ok", "Err"},
            list : {<<>>} \cup {<<l>> : l \in Lists},
            delete : {"Ok", "Err"}]

\* u32::to_string
to_string(n) == ToString(n)

\* pop3_receiver.rs 120-136: the `for msg in list` loop of fetch_emails from
\* its k-th entry on; acc is its Vec `emails` so far, cmds the commands issued.
RECURSIVE FetchLoop(_, _, _, _)
\* Variant of FetchLoop: a failing retrieval ends the loop and the emails
\* pushed so far are returned.
FetchLoopPartial(list, k, acc, cmds) ==
    IF k > Len(list) THEN [result |-> <<acc>>, cmds |-> cmds]
    ELSE LET msg == list[k]
             uid == UnwrapOr(msg.uid, to_string(msg.message_id))
             cmds1 == cmds \o << <<"get_unique_id", msg.message_id>>,
                                 <<"retrieve", msg.message_id>> >>
         IN  IF msg.content = <<>>
             THEN [result |-> <<acc>>, cmds |-> cmds1]
             ELSE FetchLoop(list, k + 1,
                            Append(acc, [id |-> uid, content |-> msg.content[1]]),
                            cmds1)

\* Variant of FetchLoop: the id is always the sequence number as text.
FetchLoopBySeqNum(list, k, acc, cmds) ==
    IF k > Len(list) THEN [result |-> <<acc>>, cmds |-> cmds]
    ELSE LET msg == list[k]
             uid == to_string(msg.message_id)
             cmds1 == cmds \o << <<"get_unique_id", msg.message_id>>,
                                 <<"retrieve", msg.message_id>> >>
         IN  IF msg.content = <<>>
             THEN [result |-> <<>>, cmds |-> cmds1]
             ELSE FetchLoop(list, k + 1,
                            Append(acc, [id |-> uid, content |-> msg.content[1]]),
                            cmds1)

FetchLoop(list, k, acc, cmds) ==
    IF k > Len(list) THEN [result |-> <<acc>>, cmds |-> cmds]
    ELSE LET msg == list[k]
             uid == UnwrapOr(msg.uid, to_string(msg.message_id))
             cmds1 == cmds \o << <<"get_unique_id", msg.message_id>>,
                                 <<"retrieve", msg.message_id>> >>
         IN  IF msg.content = <<>>
             THEN [result |-> <<>>, cmds |-> cmds1]
             ELSE FetchLoop(list, k + 1,
                            Append(acc, [id |-> uid, content |-> msg.content[1]]),
                            cmds1)

\* pop3_receiver.rs 105-141: Pop3Receiver::fetch_emails on a server: the
\* Result it returns and the commands of its session.
fetch_emails(srv) ==
    IF srv.create = "Err" THEN [result |-> <<>>, cmds |-> <<>>]
    ELSE IF srv.list = <<>> THEN [result |-> <<>>, cmds |-> << <<"list">> >>]
    ELSE FetchLoop(srv.list[1], 1, <<>>, << <<"list">> >>)

\* pop3_receiver.rs 156-169: the `for msg in list` loop of delete_email from
\* its k-th entry on: found_num as an Option, and the commands issued.
RECURSIVE FindLoop(_, _, _, _)
\* Variant of FindLoop: an entry whose unique id differs from the target is
\* also compared by its sequence number.
FindLoopAlsoBySeqNum(list, k, target_uid, cmds) ==
    IF k > Len(list) THEN [found_num |-> <<>>, cmds |-> cmds]
    ELSE LET msg == list[k]
             cmds1 == Append(cmds, <<"get_unique_id", msg.message_id>>)
         IN  IF msg.uid # <<>> /\ msg.uid[1] = target_uid
             THEN [found_num |-> <<msg.message_id>>, cmds |-> cmds1]
             ELSE IF to_string(msg.message_id) = target_uid
                  THEN [found_num |-> <<msg.message_id>>, cmds |-> cmds1]
                  ELSE FindLoop(list, k + 1, target_uid, cmds1)

FindLoop(list, k, target_uid, cmds) ==
    IF k > Len(list) THEN [found_num |-> <<>>, cmds |-> cmds]
    ELSE LET msg == list[k]
             cmds1 == Append(cmds, <<"get_unique_id", msg.message_id>>)
         IN  IF msg.uid # <<>>
             THEN IF msg.uid[1] = target_uid
                  THEN [found_num |-> <<msg.message_id>>, cmds |-> cmds1]
                  ELSE FindLoop(list, k + 1, target_uid, cmds1)
             ELSE IF to_string(msg.message_id) = target_uid
                  THEN [found_num |-> <<msg.message_id>>, cmds |-> cmds1]
                  ELSE FindLoop(list, k + 1, target_uid, cmds1)

\* pop3_receiver.rs 143-187: Pop3Receiver::delete_email on a server: the
\* Result it returns and the commands of its session.
delete_email(srv, id) ==
    IF srv.create = "Err" THEN [result |-> <<>>, cmds |-> <<>>]
    ELSE IF srv.list = <<>> THEN [result |-> <<>>, cmds |-> << <<"list">> >>]
    ELSE LET f == FindLoop(srv.list[1], 1, id, << <<"list">> >>)
         IN  IF f.found_num # <<>>
             THEN [result |-> IF srv.delete = "Ok" THEN <<Unit>> ELSE <<>>,
                   cmds |-> Append(f.cmds, <<"delete", f.found_num[1]>>)]
             ELSE [result |-> <<>>, cmds |-> f.cmds]

\* main.rs 250-266 over pop3_receiver.rs 105-141: one cycle's fetch; the
\* Vec<Email> handed to process_emails is the Ok value, none on Err.
Pop3Fetch ==
    /\ LET r == fetch_emails(server)
       IN  pop3_ret' = [op |-> "fetch_emails", id |-> "",
                        result |-> r.result, cmds |-> r.cmds,
                        processed |-> UnwrapOr(r.result, <<>>)]
    /\ UNCHANGED <<loopVars, sharedVars, server>>

\* pop3_receiver.rs 143-187: one call of delete_email.
Pop3Delete(id) ==
    /\ LET r == delete_email(server, id)
       IN  pop3_ret' = [op |-> "delete_email", id |-> id,
                        result |-> r.result, cmds |-> r.cmds,
                        processed |-> <<>>]
    /\ UNCHANGED <<loopVars, sharedVars, server>>

NextPop3 ==
    \/ Pop3Fetch
    \/ \E id \in DeleteIds : Pop3Delete(id)

\* A Pop3Receiver alone, against any server; no account is configured.
InitPop3Any ==
    /\ receivers = <<>>
    /\ notifications = 0
    /\ listener = "Ok"
    /\ username = "me@example.org"
    /\ InitShared
    /\ mailbox = <<>>
    /\ main_pc = "done"
    /\ handles = 0
    /\ joined = 0
    /\ InitTasks(0)
    /\ server \in Servers
    /\ pop3_ret = NoCall

SpecPop3 == InitPop3Any /\ [][NextPop3]_vars

\* ---------------------------------------------------------------- C33..C35
\* The decimal text of a sequence number.
DecimalText(n) == CASE n = 1 -> "1" [] n = 2 -> "2" [] n = 3 -> "3"
\* The id fetch_emails is to give the message of a list entry.
IdOf(e) == IF e.uid # <<>> THEN e.uid[1] ELSE DecimalText(e.message_id)
\* The sequence numbers of the delete commands of the latest call, in order.
DeleteCmds == SelectSeq(pop3_ret.cmds, LAMBDA c : c[1] = "delete")
\* The sequence numbers of the retrieve commands of the latest call.
Retrieved == {c[2] : c \in {d \in Range(pop3_ret.cmds) : d[1] = "retrieve"}}

\* C33: a fetch that returns Ok returns one message per entry of the
\* server's list, in list order; the id of the k-th message is the k-th
\* entry's unique id, or the decimal text of its sequence number when the
\* unique-id lookup fails, and its content is what retrieve wrote for that
\* entry.
C33_FetchReturnsList ==
    (pop3_ret.op = "fetch_emails" /\ pop3_ret.result # <<>>) =>
        /\ server.create = "Ok"
        /\ server.list # <<>>
        /\ LET list == server.list[1]
               es == pop3_ret.result[1]
           IN  /\ Len(es) = Len(list)
               /\ \A k \in DOMAIN list :
                     /\ es[k].id = IdOf(list[k])
                     /\ list[k].content # <<>>
                     /\ es[k].content = list[k].content[1]

\* A successful fetch of two messages: the first entry's unique-id lookup
\* failed, the second's succeeded, and the two were retrieved with different
\* bytes.
C33_Witness ==
    /\ pop3_ret.op = "fetch_emails"
    /\ pop3_ret.result # <<>>
    /\ Len(pop3_ret.result[1]) = 2
    /\ server.list[1][1].uid = <<>>
    /\ server.list[1][2].uid # <<>>
    /\ pop3_ret.result[1][1].content # pop3_ret.result[1][2].content

\* C34: when factory.create, list or the retrieval of any listed entry
\* fails, fetch_emails returns Err, and the cycle hands no message to
\* process_emails, not even those retrieved before the failure.
C34_FetchAllOrNothing ==
    (/\ pop3_ret.op = "fetch_emails"
     /\ \/ server.create = "Err"
        \/ server.list = <<>>
        \/ \E k \in DOMAIN server.list[1] : server.list[1][k].content = <<>>) =>
        /\ pop3_ret.result = <<>>
        /\ pop3_ret.processed = <<>>

\* A fetch failed at its second entry after the first had been retrieved:
\* nothing is handed on.
C34_Witness ==
    /\ pop3_ret.op = "fetch_emails"
    /\ pop3_ret.result = <<>>
    /\ server.create = "Ok"
    /\ server.list # <<>>
    /\ Len(server.list[1]) = 2
    /\ server.list[1][1].content # <<>>
    /\ server.list[1][2].content = <<>>
    /\ Retrieved = {server.list[1][1].message_id, server.list[1][2].message_id}
    /\ pop3_ret.processed = <<>>

\* A list entry answers to an id: by its unique id when the lookup succeeds,
\* by the decimal text of its sequence number when the lookup fails.
Matches(e, id) == IdOf(e) = id
\* The positions of the listed entries that answer to the id of the latest
\* call.
Matching == {k \in DOMAIN server.list[1] : Matches(server.list[1][k], pop3_ret.id)}
\* The latest call was a delete_email whose session was set up and listed.
DeleteListed ==
    /\ pop3_ret.op = "delete_email"
    /\ server.create = "Ok"
    /\ server.list # <<>>
\* The least element of a non-empty set of numbers.
Least(S) == CHOOSE k \in S : \A j \in S : k <= j

\* C35, as stated: whenever listed messages answer to the id, delete_email
\* returns Ok having issued a delete command for exactly those messages;
\* when none answers, it issues no delete command and returns Err.
C35_DeleteMatchSucceeds ==
    DeleteListed =>
        IF Matching # {}
        THEN /\ pop3_ret.result # <<>>
             /\ Range(DeleteCmds) =
                    {<<"delete", server.list[1][k].message_id>> : k \in Matching}
        ELSE /\ pop3_ret.result = <<>>
             /\ DeleteCmds = <<>>

\* C35: when listed messages answer to the id, delete_email issues exactly one
\* delete command, for the first of them in list order, and returns Ok
\* exactly when that command succeeds; when none answers, or factory.create or
\* list fails, it issues no delete command and returns Err.
C35_DeleteFirstMatch ==
    pop3_ret.op = "delete_email" =>
        IF DeleteListed /\ Matching # {}
        THEN /\ DeleteCmds =
                    << <<"delete", server.list[1][Least(Matching)].message_id>> >>
             /\ (pop3_ret.result # <<>>) <=> (server.delete = "Ok")
        ELSE /\ pop3_ret.result = <<>>
             /\ DeleteCmds = <<>>

\* A delete_email of "2" on a list whose second entry has that unique id
\* while the first, which has sequence number 2, has another: the delete
\* command names the second entry's sequence number, 1, and succeeds.
C35_Witness ==
    /\ DeleteListed
    /\ pop3_ret.id = "2"
    /\ Len(server.list[1]) = 2
    /\ server.list[1][1] = [message_id |-> 2, uid |-> <<"a">>, content |-> <<"x">>]
    /\ server.list[1][2].uid = <<"2">>
    /\ DeleteCmds = << <<"delete", 1>> >>
    /\ pop3_ret.result = <<Unit>>

\* ------------------------------------------------------------------- C36
\* C36: every task exists with its subscription before main can send the
\* signal; once sent, the signal stays in the receiver of every task that is
\* still running, whether the task had not yet reached its select! or was
\* inside a cycle, and at the select! the shutdown arm is ready.
C36_SignalNeverMissed ==
    \A a \in Tasks :
        /\ main_pc # "spawn" => pc[a] # "unspawned"
        /\ (Signalled /\ pc[a] \in Running) => shutdown_rx[a] = 1
        /\ (Signalled /\ pc[a] = "waiting") => ENABLED SelectShutdown(a)
        /\ ~Signalled => shutdown_rx[a] = 0

\* The signal has been sent while the first task was delivering a batch and
\* the second had not yet run at all; it is pending for both.
C36_Witness ==
    /\ main_pc = "join"
    /\ InForward(1)
    /\ pc[2] = "init"
    /\ shutdown_rx = <<1, 1>>

\* ------------------------------------------------------------------- C37
\* The number of elements of a sequence of ids that equal id.
Count(ids, id) == Cardinality({k \in DOMAIN ids : ids[k] = id})

\* C37: within one step an id is delivered successfully at most once and
\* occurs at most once in the id list of the batched delete, however often
\* the batch holds it; a delivery of an id is attempted only when every
\* earlier delivery of that id in the step has failed.
C37_DuplicateHandledOnce ==
    \A a \in Tasks :
        LET sends == SendsOf(a)
            oks == IdsOf(OkSendsOf(a))
            dels == Range(DeletesOf(a))
        IN  /\ \A id \in Ids :
                  /\ Count(oks, id) <= 1
                  /\ Count(to_delete[a], id) <= 1
                  /\ \A d \in dels : Count(d.ids, id) <= 1
            /\ \A j, k \in DOMAIN sends :
                  (j < k /\ sends[j].id = sends[k].id) => ~sends[j].ok

\* A batch held the same id twice: the delivery of the first occurrence
\* failed, the second was delivered, and the batched delete named the id once.
C37_Witness ==
    \E a \in Tasks :
        /\ Len(batch[a]) = 2
        /\ batch[a][1].id = batch[a][2].id
        /\ Len(SendsOf(a)) = 2
        /\ ~SendsOf(a)[1].ok
        /\ SendsOf(a)[2].ok
        /\ Len(DeletesOf(a)) = 1
        /\ Len(DeletesOf(a)[1].ids) = 1

\* ------------------------------------------------------------- C38, C39
\* C38: an id named in a batched delete that failed stays in seen_ids from
\* then on, and no later call of the task delivers it, names it in a delete
\* or notifies about it.
C38_UndeletedNeverHandledAgain ==
    [][\A a \in Tasks : \A id \in undeleted[a] :
          /\ id \in undeleted'[a]
          /\ id \in seen_ids'[a]
          /\ Len(calls'[a]) = Len(calls[a]) + 1 =>
                LET c == calls'[a][Len(calls'[a])]
                IN  /\ c.op \in {"send", "notify"} => c.id # id
                    /\ c.op = "delete" => \A k \in DOMAIN c.ids : c.ids[k] # id]_vars

\* A later fetch returned an id whose batched delete had failed together
\* with another id: the step skipped the first and delivered, deleted and
\* notified the other.
C38_Witness ==
    \E a \in Tasks : \E id \in undeleted[a] :
        /\ DeleteAfterForward(a)
        /\ Processed(a)
        /\ id \in seen0[a]
        /\ \E k \in DOMAIN batch[a] : batch[a][k].id = id
        /\ Len(OkSendsOf(a)) = 1
        /\ Len(DeletesOf(a)) = 1
        /\ DeletesOf(a)[1].ok
        /\ NotifiesOf(a) # <<>>

\* C39: with delete_after_forward set, while no batched delete of the task
\* has failed, seen_ids is empty whenever the task is at its select!.
C39_SeenEmptyWhileDeletesSucceed ==
    \A a \in Tasks :
        (/\ DeleteAfterForward(a)
         /\ undeleted[a] = {}
         /\ pc[a] = "waiting") => seen_ids[a] = {}

\* The task is back at its select! after cycles that delivered every id and
\* whose deletes all succeeded; the latest delivery attempt of some id failed.
C39_Witness ==
    \E a \in Tasks :
        /\ DeleteAfterForward(a)
        /\ pc[a] = "waiting"
        /\ undeleted[a] = {}
        /\ forwarded[a] = Ids
        /\ failed[a] # {}
        /\ seen_ids[a] = {}
====
